---- MODULE Spec2Model ----
(***************************************************************************)
(* A model of the tree-walking interpreter of src/interpreter/interpreter.rs *)
(* over the syntax and environment of src/ir/ast.rs.                        *)
(*                                                                         *)
(* Expressions, statements, functions and environment values are all one   *)
(* record shape (a "node"): the tag names the Rust enum variant, the other *)
(* fields hold its payload.  Result<_, ErrorMessage> values, extended by   *)
(* the outcome "Panic" for an unwrap()/unreachable!() abort, are "results".*)
(***************************************************************************)
EXTENDS Integers, Sequences, FiniteSets, TLC

VARIABLES env, result, op, input, steps

vars == <<env, result, op, input, steps>>

----------------------------------------------------------------------------
(* Bounds of the model *)

\* i32 is modelled IntBits bits wide (TLC's own integers are 32 bits wide,
\* so the saturation bounds could not be crossed at full width)
IntBits == 8

\* how many environment-changing operations one session performs
MaxSteps == 2

\* iterations of a While loop the model follows
MaxIter == 10

RECURSIVE Pow2(_)
Pow2(k) == IF k = 0 THEN 1 ELSE 2 * Pow2(k - 1)

MinInt == -Pow2(IntBits - 1)

MaxInt == Pow2(IntBits - 1) - 1

----------------------------------------------------------------------------
(* Syntax: Expression, Statement, Function, ValueConstructor (ast.rs) *)

Node(tag) ==
    [tag |-> tag, n |-> 0, d |-> 1, s |-> "", s2 |-> "",
     names |-> <<>>, kids |-> <<>>, envs |-> <<>>]

CTrue == Node("CTrue")

CFalse == Node("CFalse")

CVoid == Node("CVoid")

CNothing == Node("CNothing")

CInt(i) == [Node("CInt") EXCEPT !.n = i]

\* CReal(f64): the value n/d (d > 0, lowest terms); d = 0 is +inf, -inf or NaN
CReal(num, den) == [Node("CReal") EXCEPT !.n = num, !.d = den]

CString(str) == [Node("CString") EXCEPT !.s = str]

Var(name) == [Node("Var") EXCEPT !.s = name]

FuncCall(name, args) == [Node("FuncCall") EXCEPT !.s = name, !.kids = args]

Unary(tag, e) == [Node(tag) EXCEPT !.kids = <<e>>]

Binary(tag, l, r) == [Node(tag) EXCEPT !.kids = <<l, r>>]

Add(l, r) == Binary("Add", l, r)

Sub(l, r) == Binary("Sub", l, r)

Mul(l, r) == Binary("Mul", l, r)

Div(l, r) == Binary("Div", l, r)

And(l, r) == Binary("And", l, r)

Or(l, r) == Binary("Or", l, r)

Not(e) == Unary("Not", e)

EQ(l, r) == Binary("EQ", l, r)

GT(l, r) == Binary("GT", l, r)

LT(l, r) == Binary("LT", l, r)

GTE(l, r) == Binary("GTE", l, r)

LTE(l, r) == Binary("LTE", l, r)

COk(e) == Unary("COk", e)

CErr(e) == Unary("CErr", e)

CJust(e) == Unary("CJust", e)

Unwrap(e) == Unary("Unwrap", e)

IsError(e) == Unary("IsError", e)

IsNothing(e) == Unary("IsNothing", e)

Propagate(e) == Unary("Propagate", e)

ADTConstructor(adt, ctor, args) ==
    [Node("ADTConstructor") EXCEPT !.s = adt, !.s2 = ctor, !.kids = args]

\* ValueConstructor { name, types }: the types by name
ValueConstructor(name, types) ==
    [Node("ValueConstructor") EXCEPT !.s = name, !.names = types]

\* Function { name, kind, params, body }: names are the parameter names,
\* kids is <<body>>, or <<>> for body: None
Function(name, params, body) ==
    [Node("Function") EXCEPT !.s = name, !.names = params, !.kids = body]

\* Function::new(): the scope of the top level
MainFunction == Function("__main__", <<>>, <<>>)

VarDeclaration(name) == [Node("VarDeclaration") EXCEPT !.s = name]

Assignment(name, e) == [Node("Assignment") EXCEPT !.s = name, !.kids = <<e>>]

\* IfThenElse(cond, then, Option<else>): kids <<cond, then>> or <<cond, then, else>>
IfThenElse(c, branches) == [Node("IfThenElse") EXCEPT !.kids = <<c>> \o branches]

While(c, body) == [Node("While") EXCEPT !.kids = <<c, body>>]

Block(stmts) == [Node("Block") EXCEPT !.kids = stmts]

Sequence(s1, s2) == [Node("Sequence") EXCEPT !.kids = <<s1, s2>>]

AssertTrue(c, msg) == [Node("AssertTrue") EXCEPT !.s = msg, !.kids = <<c>>]

AssertFalse(c, msg) == [Node("AssertFalse") EXCEPT !.s = msg, !.kids = <<c>>]

AssertEQ(l, r, msg) == [Node("AssertEQ") EXCEPT !.s = msg, !.kids = <<l, r>>]

AssertNEQ(l, r, msg) == [Node("AssertNEQ") EXCEPT !.s = msg, !.kids = <<l, r>>]

AssertFails(msg) == [Node("AssertFails") EXCEPT !.s = msg]

TestDef(func) == [Node("TestDef") EXCEPT !.kids = <<func>>]

ModTestDef(name, stmt) == [Node("ModTestDef") EXCEPT !.s = name, !.kids = <<stmt>>]

FuncDef(func) == [Node("FuncDef") EXCEPT !.kids = <<func>>]

Return(e) == [Node("Return") EXCEPT !.kids = <<e>>]

ADTDeclaration(name, constructors) ==
    [Node("ADTDeclaration") EXCEPT !.s = name, !.kids = constructors]

\* Match(exp, cases): kids <<exp, pattern1, body1, pattern2, body2, ...>>
Match(e, cases) == [Node("Match") EXCEPT !.kids = <<e>> \o cases]

\* EnvValue: Exp(e) is the expression node e itself, Func(f) the Function
\* node f, TestEnvironment(t) a node holding t.name and t.env
TestEnvironmentValue(name, e) ==
    [Node("TestEnvironment") EXCEPT !.s = name, !.envs = <<e>>]

IsFunc(v) == v.tag = "Function"

IsExp(v) == v.tag \notin {"Function", "TestEnvironment"}

----------------------------------------------------------------------------
(* Results: Result<EnvValue, ErrorMessage>, Result<ControlFlow, ErrorMessage> *)

Res(kind) ==
    [kind |-> kind, val |-> <<>>, env |-> <<>>, msg |-> "", opt |-> <<>>,
     early |-> FALSE]

Ok(v) == [Res("Ok") EXCEPT !.val = <<v>>]

\* Err((msg, None))
Err(msg) == [Res("Err") EXCEPT !.msg = msg]

\* Err((msg, Some(e)))
ErrWith(msg, e) == [Res("Err") EXCEPT !.msg = msg, !.opt = <<e>>]

\* a failed unwrap() or unreachable!(): the interpreter aborts
Panic == Res("Panic")

\* ControlFlow::Continue(env)
Continue(e) == [Res("Continue") EXCEPT !.env = <<e>>]

\* ControlFlow::Return(value)
ReturnValue(v) == [Res("Return") EXCEPT !.val = <<v>>]

\* the While loop was followed for MaxIter iterations without ending
Diverge == Res("Diverge")

\* what the ? operator returns from the enclosing function
Failed(r) == r.kind \in {"Err", "Panic", "Diverge"}

\* a result that left execute through ? or return, past its final match
Early(r) == [r EXCEPT !.early = TRUE]

----------------------------------------------------------------------------
(* f64 arithmetic: the value n/d with d > 0 in lowest terms; d = 0 stands  *)
(* for +inf (n = 1), -inf (n = -1) and NaN (n = 0).  Every i32 is exact in *)
(* f64, and so are the sums, differences and quotients of two of them up   *)
(* to the truncation the cast back performs.                               *)

Abs(i) == IF i < 0 THEN -i ELSE i

Sign(i) == IF i < 0 THEN -1 ELSE IF i > 0 THEN 1 ELSE 0

RECURSIVE Gcd(_, _)
Gcd(a, b) == IF b = 0 THEN a ELSE Gcd(b, a % b)

F64(num, den) ==
    IF den = 0 THEN [n |-> Sign(num), d |-> 0]
    ELSE LET g == Gcd(Abs(num), Abs(den))
         IN [n |-> Sign(den) * (num \div g), d |-> Abs(den) \div g]

\* v as f64, for v an i32
IntToF64(i) == [n |-> i, d |-> 1]

IsNaN(x) == x.d = 0 /\ x.n = 0

IsInf(x) == x.d = 0 /\ x.n # 0

FAdd(x, y) ==
    IF IsNaN(x) \/ IsNaN(y) THEN F64(0, 0)
    ELSE IF IsInf(x) /\ IsInf(y) THEN (IF x.n = y.n THEN x ELSE F64(0, 0))
    ELSE IF IsInf(x) THEN x
    ELSE IF IsInf(y) THEN y
    ELSE F64(x.n * y.d + y.n * x.d, x.d * y.d)

FNeg(x) == [n |-> -x.n, d |-> x.d]

FSub(x, y) == FAdd(x, FNeg(y))

FMul(x, y) ==
    IF IsNaN(x) \/ IsNaN(y) THEN F64(0, 0)
    ELSE IF IsInf(x) \/ IsInf(y) THEN F64(Sign(x.n) * Sign(y.n), 0)
    ELSE F64(x.n * y.n, x.d * y.d)

FDiv(x, y) ==
    IF IsNaN(x) \/ IsNaN(y) THEN F64(0, 0)
    ELSE IF IsInf(x) THEN (IF IsInf(y) THEN F64(0, 0)
                           ELSE F64(IF y.n < 0 THEN -x.n ELSE x.n, 0))
    ELSE IF IsInf(y) THEN F64(0, 1)
    ELSE F64(x.n * y.d, x.d * y.n)

FEq(x, y) == ~IsNaN(x) /\ ~IsNaN(y) /\ x = y

FLt(x, y) ==
    /\ ~IsNaN(x)
    /\ ~IsNaN(y)
    /\ IF IsInf(x) /\ IsInf(y) THEN x.n < y.n
       ELSE IF IsInf(x) THEN x.n < 0
       ELSE IF IsInf(y) THEN y.n > 0
       ELSE x.n * y.d < y.n * x.d

\* a cast that rounds toward minus infinity
F64ToI32_floor(x) ==
    IF IsNaN(x) THEN 0
    ELSE IF IsInf(x) THEN (IF x.n > 0 THEN MaxInt ELSE MinInt)
    ELSE LET q == IF x.n >= 0 THEN x.n \div x.d ELSE -((-x.n + x.d - 1) \div x.d)
         IN IF q > MaxInt THEN MaxInt ELSE IF q < MinInt THEN MinInt ELSE q

\* a cast that keeps the low IntBits bits of the truncated value: it wraps
F64ToI32_wrapping(x) ==
    IF x.d = 0 THEN 0
    ELSE LET q == IF x.n >= 0 THEN x.n \div x.d ELSE -((-x.n) \div x.d)
         IN ((q - MinInt) % Pow2(IntBits)) + MinInt

\* `x as i32`: truncates toward zero, saturates at the bounds, NaN is 0
F64ToI32(x) ==
    IF IsNaN(x) THEN 0
    ELSE IF IsInf(x) THEN (IF x.n > 0 THEN MaxInt ELSE MinInt)
    ELSE LET q == IF x.n >= 0 THEN x.n \div x.d ELSE -((-x.n) \div x.d)
         IN IF q > MaxInt THEN MaxInt ELSE IF q < MinInt THEN MinInt ELSE q

\* the closures handed to eval_binary_arith_op, by name
ArithOp(name, a, b) ==
    CASE name = "Add" -> FAdd(a, b)
      [] name = "Sub" -> FSub(a, b)
      [] name = "Mul" -> FMul(a, b)
      [] name = "Div" -> FDiv(a, b)

\* the closures handed to eval_binary_rel_op, by name
RelOp(name, a, b) ==
    LET holds == CASE name = "EQ" -> FEq(a, b)
                   [] name = "GT" -> FLt(b, a)
                   [] name = "LT" -> FLt(a, b)
                   [] name = "GTE" -> FLt(b, a) \/ FEq(a, b)
                   [] name = "LTE" -> FLt(a, b) \/ FEq(a, b)
    IN IF holds THEN CTrue ELSE CFalse

\* the closures handed to eval_binary_boolean_op, by name
BoolOp(name, a, b) ==
    LET holds == CASE name = "And" -> a /\ b
                   [] name = "Or" -> a \/ b
    IN IF holds THEN CTrue ELSE CFalse

\* the digits of r/d after the decimal point, r < d, at most k of them
RECURSIVE Decimals(_, _, _)
Decimals(r, d, k) ==
    IF r = 0 \/ k = 0 THEN ""
    ELSE ToString((10 * r) \div d) \o Decimals((10 * r) % d, d, k - 1)

\* f64::to_string
F64ToString(x) ==
    IF IsNaN(x) THEN "NaN"
    ELSE IF IsInf(x) THEN (IF x.n > 0 THEN "inf" ELSE "-inf")
    ELSE IF x.d = 1 THEN ToString(x.n)
    ELSE (IF x.n < 0 THEN "-" ELSE "") \o ToString(Abs(x.n) \div x.d)
         \o "." \o Decimals(Abs(x.n) % x.d, x.d, 16)

----------------------------------------------------------------------------
(* Environment and Frame (ast.rs) *)

EmptyMap == [k \in {} |-> CVoid]

Insert(map, k, v) == (k :> v) @@ map

\* Frame::new(func, key): the Options as sequences of length 0 or 1
NewFrame(func, key) ==
    [parent_function |-> func, parent_key |-> key,
     variables |-> EmptyMap, tests |-> EmptyMap]

\* Environment::new()
NewEnvironment ==
    [scope |-> MainFunction, recursion |-> 0,
     stack |-> (<<"__main__", 0>> :> NewFrame(<<>>, <<>>)),
     type_env |-> EmptyMap]

scope_key(e) == <<e.scope.s, e.recursion>>

\* stack.get(&scope_key()).unwrap().variables.get(&name): None as <<>>;
\* the caller answers for the unwrap
search_frame(e, name) ==
    LET vs == e.stack[scope_key(e)].variables
    IN IF name \in DOMAIN vs THEN <<vs[name]>> ELSE <<>>

\* an insert_frame whose frame does not record where it was inserted from
insert_frame_orphan(e, func) ==
    [e EXCEPT !.stack = Insert(e.stack, <<func.s, e.recursion + 1>>,
                               NewFrame(<<>>, <<>>)),
              !.scope = func,
              !.recursion = e.recursion + 1]

insert_frame(e, func) ==
    [e EXCEPT !.stack = Insert(e.stack, <<func.s, e.recursion + 1>>,
                               NewFrame(<<e.scope>>, <<scope_key(e)>>)),
              !.scope = func,
              !.recursion = e.recursion + 1]

\* a remove_frame that drops the frame and leaves scope and recursion alone
remove_frame_keep_scope(e) ==
    Continue([e EXCEPT !.stack = [k \in DOMAIN e.stack \ {scope_key(e)} |->
                                      e.stack[k]]])

\* the frame of scope_key() is taken out of the stack, its parent_function
\* becomes the scope and recursion goes down by one; each of the two unwraps
\* panics on None
remove_frame(e) ==
    IF scope_key(e) \notin DOMAIN e.stack THEN Panic
    ELSE IF e.stack[scope_key(e)].parent_function = <<>> THEN Panic
    ELSE Continue([e EXCEPT
             !.stack = [k \in DOMAIN e.stack \ {scope_key(e)} |-> e.stack[k]],
             !.scope = e.stack[scope_key(e)].parent_function[1],
             !.recursion = e.recursion - 1])

insert_variable(e, name, kind) ==
    IF scope_key(e) \in DOMAIN e.stack
    THEN [e EXCEPT !.stack[scope_key(e)].variables = Insert(@, name, kind)]
    ELSE e

insert_type(e, name, constructors) ==
    [e EXCEPT !.type_env = Insert(@, name, constructors)]

\* None as <<>>
get_type(e, name) ==
    IF name \in DOMAIN e.type_env THEN <<e.type_env[name]>> ELSE <<>>

\* an insert_test that files the test among the variables of the frame
insert_test_as_variable(e, name, test) ==
    IF scope_key(e) \in DOMAIN e.stack
    THEN [e EXCEPT !.stack[scope_key(e)].variables = Insert(@, name, test)]
    ELSE e

insert_test(e, name, test) ==
    IF scope_key(e) \in DOMAIN e.stack
    THEN [e EXCEPT !.stack[scope_key(e)].tests = Insert(@, name, test)]
    ELSE e

----------------------------------------------------------------------------
(* The expression evaluator (interpreter.rs) *)

RECURSIVE eval(_, _), execute(_, _), execute_block(_, _), call(_, _, _)
RECURSIVE matches_pattern(_, _, _)

\* Ok(true) and Ok(false) of a Result<bool, _>, held as CTrue and CFalse
OkBool(b) == Ok(IF b THEN CTrue ELSE CFalse)

is_constant(exp) ==
    exp.tag \in {"CTrue", "CFalse", "CVoid", "CInt", "CReal", "CString", "CNothing"}

\* the loop of lookup, from the frame keyed curr_scope
RECURSIVE lookup_from(_, _, _)
lookup_from(name, e, curr_scope) ==
    IF curr_scope \notin DOMAIN e.stack THEN Panic
    ELSE LET frame == e.stack[curr_scope]
         IN IF name \in DOMAIN frame.variables THEN Ok(frame.variables[name])
            ELSE IF frame.parent_key = <<>> THEN Panic
            ELSE lookup_from(name, e, frame.parent_key[1])

lookup(name, e) == lookup_from(name, e, scope_key(e))

F64Of(v) == IF v.tag = "CInt" THEN IntToF64(v.n) ELSE [n |-> v.n, d |-> v.d]

RealNode(x) == CReal(x.n, x.d)

\* `let v = value; body`: the value is computed once and bound in the body
With(value, Body(_)) == Body(value)

eval_binary_arith_op(lhs, rhs, e, opname, error_msg) ==
    With(eval(lhs, e), LAMBDA v1 :
    IF Failed(v1) THEN v1
    ELSE With(eval(rhs, e), LAMBDA v2 :
         IF Failed(v2) THEN v2
         ELSE LET a == v1.val[1]
                  b == v2.val[1]
              IN IF a.tag = "CInt" /\ b.tag = "CInt"
                 THEN Ok(CInt(F64ToI32(ArithOp(opname, F64Of(a), F64Of(b)))))
                 ELSE IF a.tag \in {"CInt", "CReal"} /\ b.tag \in {"CInt", "CReal"}
                 THEN Ok(RealNode(ArithOp(opname, F64Of(a), F64Of(b))))
                 ELSE Err(error_msg)))

add(lhs, rhs, e) ==
    eval_binary_arith_op(lhs, rhs, e, "Add",
        "addition '(+)' is only defined for numbers (integers and real).")

sub(lhs, rhs, e) ==
    eval_binary_arith_op(lhs, rhs, e, "Sub",
        "subtraction '(-)' is only defined for numbers (integers and real).")

mul(lhs, rhs, e) ==
    eval_binary_arith_op(lhs, rhs, e, "Mul",
        "multiplication '(*)' is only defined for numbers (integers and real).")

div(lhs, rhs, e) ==
    eval_binary_arith_op(lhs, rhs, e, "Div",
        "division '(/)' is only defined for numbers (integers and real).")

eval_binary_boolean_op(lhs, rhs, e, opname, error_msg) ==
    With(eval(lhs, e), LAMBDA v1 :
    IF Failed(v1) THEN v1
    ELSE With(eval(rhs, e), LAMBDA v2 :
         IF Failed(v2) THEN v2
         ELSE LET a == v1.val[1]
                  b == v2.val[1]
              IN IF a \in {CTrue, CFalse} /\ b \in {CTrue, CFalse}
                 THEN Ok(BoolOp(opname, a = CTrue, b = CTrue))
                 ELSE Err(error_msg)))

and(lhs, rhs, e) ==
    eval_binary_boolean_op(lhs, rhs, e, "And", "'and' is only defined for booleans.")

or(lhs, rhs, e) ==
    eval_binary_boolean_op(lhs, rhs, e, "Or", "'or' is only defined for booleans.")

not(lhs, e) ==
    With(eval(lhs, e), LAMBDA v :
    IF Failed(v) THEN v
    ELSE IF v.val[1] = CTrue THEN Ok(CFalse)
    ELSE IF v.val[1] = CFalse THEN Ok(CTrue)
    ELSE Err("'not' is only defined for booleans."))

eval_binary_rel_op(lhs, rhs, e, opname, error_msg) ==
    With(eval(lhs, e), LAMBDA v1 :
    IF Failed(v1) THEN v1
    ELSE With(eval(rhs, e), LAMBDA v2 :
         IF Failed(v2) THEN v2
         ELSE LET a == v1.val[1]
                  b == v2.val[1]
              IN IF a.tag \in {"CInt", "CReal"} /\ b.tag \in {"CInt", "CReal"}
                 THEN Ok(RelOp(opname, F64Of(a), F64Of(b)))
                 ELSE Err(error_msg)))

eq(lhs, rhs, e) ==
    eval_binary_rel_op(lhs, rhs, e, "EQ",
        "(==) is only defined for numbers (integers and real).")

gt(lhs, rhs, e) ==
    eval_binary_rel_op(lhs, rhs, e, "GT",
        "(>) is only defined for numbers (integers and real).")

lt(lhs, rhs, e) ==
    eval_binary_rel_op(lhs, rhs, e, "LT",
        "(<) is only defined for numbers (integers and real).")

gte(lhs, rhs, e) ==
    eval_binary_rel_op(lhs, rhs, e, "GTE",
        "(>=) is only defined for numbers (integers and real).")

lte(lhs, rhs, e) ==
    eval_binary_rel_op(lhs, rhs, e, "LTE",
        "(<=) is only defined for numbers (integers and real).")

\* an Unwrap that also opens Err(_)
eval_unwrap_expression_lenient(exp, e) ==
    With(eval(exp, e), LAMBDA v :
    IF Failed(v) THEN v
    ELSE IF v.val[1].tag \in {"CJust", "COk", "CErr"} THEN Ok(v.val[1].kids[1])
    ELSE Err("Program panicked trying to unwrap."))

eval_unwrap_expression(exp, e) ==
    With(eval(exp, e), LAMBDA v :
    IF Failed(v) THEN v
    ELSE IF v.val[1].tag \in {"CJust", "COk"} THEN Ok(v.val[1].kids[1])
    ELSE Err("Program panicked trying to unwrap."))

eval_propagate_expression(exp, e) ==
    With(eval(exp, e), LAMBDA v :
    IF Failed(v) THEN v
    ELSE IF v.val[1].tag \in {"CJust", "COk"} THEN Ok(v.val[1].kids[1])
    ELSE IF v.val[1].tag = "CErr" THEN ErrWith("Propagate", v.val[1].kids[1])
    ELSE IF v.val[1].tag = "CNothing"
    THEN ErrWith("Propagate", CString("Couldn't unwrap Nothing"))
    ELSE Err("'propagate' is expects a Just or Ok."))

eval_isnothing_expression(exp, e) ==
    With(eval(exp, e), LAMBDA v :
    IF Failed(v) THEN v
    ELSE IF v.val[1].tag = "CNothing" THEN Ok(CTrue)
    ELSE Ok(CFalse))

\* an IsError that fails on a value that is neither Ok(_) nor Err(_)
eval_iserror_expression_strict(exp, e) ==
    With(eval(exp, e), LAMBDA v :
    IF Failed(v) THEN v
    ELSE IF v.val[1].tag = "CErr" THEN Ok(CTrue)
    ELSE IF v.val[1].tag = "COk" THEN Ok(CFalse)
    ELSE Err("'is_error' is only defined for results."))

eval_iserror_expression(exp, e) ==
    With(eval(exp, e), LAMBDA v :
    IF Failed(v) THEN v
    ELSE IF v.val[1].tag = "CErr" THEN Ok(CTrue)
    ELSE Ok(CFalse))

\* eval_just, eval_ok, eval_err: tag is the wrapper put around the value
eval_wrap(tag, exp, e) ==
    With(eval(exp, e), LAMBDA v :
    IF Failed(v) THEN v
    ELSE IF IsExp(v.val[1]) THEN Ok(Unary(tag, v.val[1]))
    ELSE Err("Expression not recognized."))

eval_just(exp, e) == eval_wrap("CJust", exp, e)

eval_ok(exp, e) == eval_wrap("COk", exp, e)

eval_err(exp, e) == eval_wrap("CErr", exp, e)

\* constructors.iter().find(|vc| vc.name == constructor_name): None as <<>>
RECURSIVE find_constructor(_, _)
find_constructor(constructors, name) ==
    IF constructors = <<>> THEN <<>>
    ELSE IF constructors[1].s = name THEN <<constructors[1]>>
    ELSE find_constructor(Tail(constructors), name)

\* args.into_iter().map(eval ...).collect(): stops at the first failure;
\* the evaluated arguments are handed back as the kids of a node
RECURSIVE evaluate_args(_, _, _)
evaluate_args(args, e, evaluated) ==
    IF args = <<>> THEN Ok([Node("Vec") EXCEPT !.kids = evaluated])
    ELSE With(eval(args[1], e), LAMBDA res :
         IF Failed(res) THEN res
         ELSE IF ~IsExp(res.val[1])
         THEN Err("Error: Expected expression in ADT constructor arguments")
         ELSE evaluate_args(Tail(args), e, Append(evaluated, res.val[1])))

\* an adtconstructor_eval that evaluates the arguments before it counts them
adtconstructor_eval_args_first(adt_name, constructor_name, args, e) ==
    IF get_type(e, adt_name) = <<>>
    THEN Err("Error: ADT " \o adt_name \o " not found")
    ELSE LET vc == find_constructor(get_type(e, adt_name)[1], constructor_name)
         IN IF vc = <<>>
            THEN Err("Error: Constructor " \o constructor_name
                     \o " not found in ADT " \o adt_name)
            ELSE With(evaluate_args(args, e, <<>>), LAMBDA evaluated_args :
                 IF Failed(evaluated_args) THEN evaluated_args
                 ELSE IF Len(vc[1].names) # Len(args)
                 THEN Err("Error: Constructor " \o constructor_name \o " expects "
                          \o ToString(Len(vc[1].names)) \o " arguments, but received "
                          \o ToString(Len(args)))
                 ELSE Ok(ADTConstructor(adt_name, constructor_name,
                                        evaluated_args.val[1].kids)))

adtconstructor_eval(adt_name, constructor_name, args, e) ==
    IF get_type(e, adt_name) = <<>>
    THEN Err("Error: ADT " \o adt_name \o " not found")
    ELSE LET vc == find_constructor(get_type(e, adt_name)[1], constructor_name)
         IN IF vc = <<>>
            THEN Err("Error: Constructor " \o constructor_name
                     \o " not found in ADT " \o adt_name)
            ELSE IF Len(vc[1].names) # Len(args)
            THEN Err("Error: Constructor " \o constructor_name \o " expects "
                     \o ToString(Len(vc[1].names)) \o " arguments, but received "
                     \o ToString(Len(args)))
            ELSE With(evaluate_args(args, e, <<>>), LAMBDA evaluated_args :
                 IF Failed(evaluated_args) THEN evaluated_args
                 ELSE Ok(ADTConstructor(adt_name, constructor_name,
                                        evaluated_args.val[1].kids)))

\* exp1 == exp2 for a constant exp2: the derived PartialEq, under which a
\* CReal holding NaN equals nothing
ExpEq(exp1, exp2) ==
    exp1 = exp2 /\ ~(exp2.tag = "CReal" /\ IsNaN(F64Of(exp2)))

\* the for loop of matches_pattern over args1.iter().zip(args2.iter())
RECURSIVE match_args(_, _, _)
match_args(args1, args2, e) ==
    IF args1 = <<>> \/ args2 = <<>> THEN OkBool(TRUE)
    ELSE With(eval(args1[1], e), LAMBDA arg_value :
         IF Failed(arg_value) THEN arg_value
         ELSE With(matches_pattern(arg_value.val[1], args2[1], e), LAMBDA m :
              IF Failed(m) THEN m
              ELSE IF m.val[1] = CFalse THEN OkBool(FALSE)
              ELSE match_args(Tail(args1), Tail(args2), e)))

\* a matches_pattern that does not compare the constructor names
matches_pattern_any_constructor(value, pattern, e) ==
    IF value.tag = "ADTConstructor" /\ pattern.tag = "ADTConstructor"
    THEN IF value.s = pattern.s
         THEN match_args(value.kids, pattern.kids, e)
         ELSE OkBool(FALSE)
    ELSE IF IsExp(value) /\ is_constant(pattern) THEN OkBool(ExpEq(value, pattern))
    ELSE Err("Pattern not supported")

matches_pattern(value, pattern, e) ==
    IF value.tag = "ADTConstructor" /\ pattern.tag = "ADTConstructor"
    THEN IF value.s = pattern.s /\ value.s2 = pattern.s2
         THEN match_args(value.kids, pattern.kids, e)
         ELSE OkBool(FALSE)
    ELSE IF IsExp(value) /\ is_constant(pattern) THEN OkBool(ExpEq(value, pattern))
    ELSE Err("Pattern not supported")

\* a copy loop that copies every binding of the caller's frame chain
RECURSIVE copy_all_variables(_, _, _)
copy_all_variables(e, curr_scope, new_env) ==
    LET frame == e.stack[curr_scope]
        copied == [new_env EXCEPT !.stack[scope_key(new_env)].variables =
                      frame.variables @@ @]
    IN IF frame.parent_key = <<>> THEN copied
       ELSE copy_all_variables(e, frame.parent_key[1], copied)

\* a copy that hands the callee the caller's type table as well
RECURSIVE copy_functions_and_types(_, _, _)
copy_functions_and_types(e, curr_scope, new_env) ==
    LET frame == e.stack[curr_scope]
        funcs == {name \in DOMAIN frame.variables : IsFunc(frame.variables[name])}
        copied == [new_env EXCEPT !.stack[scope_key(new_env)].variables =
                      [name \in funcs |-> frame.variables[name]] @@ @,
                      !.type_env = e.type_env]
    IN IF frame.parent_key = <<>> THEN copied
       ELSE copy_functions_and_types(e, frame.parent_key[1], copied)

\* "Copy global functions": the loop of call over the caller's frame chain
RECURSIVE copy_functions(_, _, _)
copy_functions(e, curr_scope, new_env) ==
    LET frame == e.stack[curr_scope]
        funcs == {name \in DOMAIN frame.variables : IsFunc(frame.variables[name])}
        copied == [new_env EXCEPT !.stack[scope_key(new_env)].variables =
                      [name \in funcs |-> frame.variables[name]] @@ @]
    IN IF frame.parent_key = <<>> THEN copied
       ELSE copy_functions(e, frame.parent_key[1], copied)

\* a binding of arguments that evaluates each argument in the callee's
\* environment
RECURSIVE bind_arguments_in_callee(_, _, _, _)
bind_arguments_in_callee(params, args, e, new_env) ==
    IF params = <<>> \/ args = <<>> THEN Continue(new_env)
    ELSE With(eval(args[1], new_env), LAMBDA arg_value :
         IF Failed(arg_value) THEN arg_value
         ELSE bind_arguments_in_callee(Tail(params), Tail(args), e,
                  insert_variable(new_env, params[1], arg_value.val[1])))

\* "Bind arguments": params.iter().zip(args), each argument evaluated in the
\* caller's environment; the result carries the callee's environment
RECURSIVE bind_arguments(_, _, _, _)
bind_arguments(params, args, e, new_env) ==
    IF params = <<>> \/ args = <<>> THEN Continue(new_env)
    ELSE With(eval(args[1], e), LAMBDA arg_value :
         IF Failed(arg_value) THEN arg_value
         ELSE bind_arguments(Tail(params), Tail(args), e,
                             insert_variable(new_env, params[1], arg_value.val[1])))

call(name, args, e) ==
    IF scope_key(e) \notin DOMAIN e.stack THEN Panic
    ELSE IF search_frame(e, name) = <<>> \/ ~IsFunc(search_frame(e, name)[1])
    THEN Err("Function " \o name \o " not found")
    ELSE LET func == search_frame(e, name)[1]
         IN With(bind_arguments(func.names, args, e,
                                copy_functions(e, scope_key(e), NewEnvironment)),
                 LAMBDA bound :
            IF Failed(bound) THEN bound
            ELSE IF func.kids = <<>> THEN Panic
            ELSE With(execute(func.kids[1], bound.env[1]), LAMBDA r :
                 IF Failed(r) THEN r
                 ELSE IF r.kind = "Return" THEN Ok(r.val[1])
                 ELSE Err("Function did not return a value")))

eval(exp, e) ==
    CASE exp.tag = "Add" -> add(exp.kids[1], exp.kids[2], e)
      [] exp.tag = "Sub" -> sub(exp.kids[1], exp.kids[2], e)
      [] exp.tag = "Mul" -> mul(exp.kids[1], exp.kids[2], e)
      [] exp.tag = "Div" -> div(exp.kids[1], exp.kids[2], e)
      [] exp.tag = "And" -> and(exp.kids[1], exp.kids[2], e)
      [] exp.tag = "Or" -> or(exp.kids[1], exp.kids[2], e)
      [] exp.tag = "Not" -> not(exp.kids[1], e)
      [] exp.tag = "EQ" -> eq(exp.kids[1], exp.kids[2], e)
      [] exp.tag = "GT" -> gt(exp.kids[1], exp.kids[2], e)
      [] exp.tag = "LT" -> lt(exp.kids[1], exp.kids[2], e)
      [] exp.tag = "GTE" -> gte(exp.kids[1], exp.kids[2], e)
      [] exp.tag = "LTE" -> lte(exp.kids[1], exp.kids[2], e)
      [] exp.tag = "Var" -> lookup(exp.s, e)
      [] exp.tag = "COk" -> eval_ok(exp.kids[1], e)
      [] exp.tag = "CErr" -> eval_err(exp.kids[1], e)
      [] exp.tag = "CJust" -> eval_just(exp.kids[1], e)
      [] exp.tag = "Unwrap" -> eval_unwrap_expression(exp.kids[1], e)
      [] exp.tag = "Propagate" -> eval_propagate_expression(exp.kids[1], e)
      [] exp.tag = "IsError" -> eval_iserror_expression(exp.kids[1], e)
      [] exp.tag = "IsNothing" -> eval_isnothing_expression(exp.kids[1], e)
      [] exp.tag = "FuncCall" -> call(exp.s, exp.kids, e)
      [] exp.tag = "ADTConstructor" -> adtconstructor_eval(exp.s, exp.s2, exp.kids, e)
      [] is_constant(exp) -> Ok(exp)
      [] OTHER -> Err("Not implemented yet.")

----------------------------------------------------------------------------
(* Error propagation (interpreter.rs) *)

\* Result<String, _>: Ok(s) as <<s>>, Err as <<>>
RECURSIVE extract_error_value(_, _)
extract_error_value(exp, e) ==
    CASE exp.tag \in {"COk", "CErr", "CJust"} -> extract_error_value(exp.kids[1], e)
      [] exp.tag = "CTrue" -> <<"True">>
      [] exp.tag = "CFalse" -> <<"False">>
      [] exp.tag = "CInt" -> <<ToString(exp.n)>>
      [] exp.tag = "CReal" -> <<F64ToString(F64Of(exp))>>
      [] exp.tag = "CString" -> <<exp.s>>
      [] exp.tag = "CNothing" -> <<"Nothing">>
      [] OTHER -> <<>>

\* a propagate_error that takes every scope for an inner one
propagate_error_returns(exp, e) == ReturnValue(CErr(exp))

propagate_error(exp, e) ==
    IF scope_key(e)[2] = 0
    THEN With(eval(exp, e), LAMBDA v :
         IF v.kind = "Panic" \/ v.kind = "Diverge" THEN v
         ELSE IF v.kind = "Ok" /\ IsExp(v.val[1])
         THEN With(extract_error_value(v.val[1], e), LAMBDA s :
              IF s # <<>> THEN Err("Program terminated with errors: " \o s[1])
              ELSE Err("Program terminated with errors"))
         ELSE Err("Program panicked and trying to terminate with errors"))
    ELSE ReturnValue(CErr(exp))

----------------------------------------------------------------------------
(* The statement executor (interpreter.rs) *)

\* match *stmt { Statement::Block(stmts) => execute_block(stmts, ..),
\*               _ => execute(*stmt, ..) }
execute_branch(stmt, e) ==
    IF stmt.tag = "Block" THEN execute_block(stmt.kids, e) ELSE execute(stmt, e)

\* a While that runs its body once at most, as an if would
while_loop_once(cond, stmt, new_env, value, iter) ==
    IF value = CTrue
    THEN With(execute(stmt, new_env), LAMBDA r :
         IF Failed(r) THEN Early(r)
         ELSE IF r.kind = "Return" THEN Early(r)
         ELSE Early(Continue(r.env[1])))
    ELSE IF value = CFalse THEN Early(Continue(new_env))
    ELSE Early(Panic)

\* the loop of Statement::While, value being the condition's last value
RECURSIVE while_loop(_, _, _, _, _)
while_loop(cond, stmt, new_env, value, iter) ==
    IF value = CTrue
    THEN IF iter = MaxIter THEN Early(Diverge)
         ELSE With(execute(stmt, new_env), LAMBDA r :
              IF Failed(r) THEN Early(r)
              ELSE IF r.kind = "Return" THEN Early(r)
              ELSE With(eval(cond, r.env[1]), LAMBDA v :
                   IF Failed(v) THEN Early(v)
                   ELSE while_loop(cond, stmt, r.env[1], v.val[1], iter + 1)))
    ELSE IF value = CFalse THEN Early(Continue(new_env))
    ELSE Early(Panic)

\* Statement::AssertTrue (expected CTrue) and Statement::AssertFalse (CFalse)
execute_assert(cond, error, expected, e) ==
    With(eval(cond, e), LAMBDA value :
    IF Failed(value) THEN Early(value)
    ELSE IF value.val[1] = expected THEN Continue(e)
    ELSE IF value.val[1] \in {CTrue, CFalse} THEN Err(error)
    ELSE Err("expecting a boolean value."))

\* Statement::AssertEQ (inner AssertTrue) and Statement::AssertNEQ (AssertFalse)
execute_assert_eq(value1, value2, error, inner, e) ==
    With(eq(value1, value2, e), LAMBDA c :
    IF Failed(c) THEN Early(c)
    ELSE IF c.val[1] \notin {CTrue, CFalse} THEN Early(Err(""))
    ELSE With(execute([Node(inner) EXCEPT !.s = error, !.kids = <<c.val[1]>>], e),
              LAMBDA r :
         IF r.kind = "Return" THEN Err("arguments are not of the same type")
         ELSE r))

\* a loop over the cases in which the last matching case wins
RECURSIVE match_cases_last(_, _, _)
match_cases_last(value, cases, e) ==
    IF cases = <<>> THEN Err("No matching pattern found")
    ELSE With(match_cases_last(value, Tail(Tail(cases)), e), LAMBDA later :
         IF later # Err("No matching pattern found") THEN later
         ELSE With(matches_pattern(value, cases[1], e), LAMBDA m :
              IF Failed(m) THEN Early(m)
              ELSE IF m.val[1] = CTrue THEN Early(execute_branch(cases[2], e))
              ELSE later))

\* the for loop of Statement::Match over the (pattern, stmt) cases
RECURSIVE match_cases(_, _, _)
match_cases(value, cases, e) ==
    IF cases = <<>> THEN Err("No matching pattern found")
    ELSE With(matches_pattern(value, cases[1], e), LAMBDA m :
         IF Failed(m) THEN Early(m)
         ELSE IF m.val[1] = CTrue THEN Early(execute_branch(cases[2], e))
         ELSE match_cases(value, Tail(Tail(cases)), e))

\* the environment TestEnvironment::new() comes with, left in place
mod_test_env_new(new_env) == NewEnvironment

\* mod_test.env = new_env.clone(): the environment the body of a ModTestDef
\* is executed against
mod_test_env(new_env) == new_env

\* the match over stmt in execute: the value of `result`, or, marked early,
\* what a ? or a return hands back past the final match on `result`
execute_statement(stmt, e) ==
    CASE stmt.tag = "Assignment" ->
            With(eval(stmt.kids[1], e), LAMBDA value :
            IF Failed(value) THEN Early(value)
            ELSE Continue(insert_variable(e, stmt.s, value.val[1])))
      [] stmt.tag = "IfThenElse" ->
            With(eval(stmt.kids[1], e), LAMBDA value :
            IF Failed(value) THEN Early(value)
            ELSE IF value.val[1] = CTrue THEN execute_branch(stmt.kids[2], e)
            ELSE IF value.val[1] = CFalse
            THEN (IF Len(stmt.kids) = 3 THEN execute_branch(stmt.kids[3], e)
                  ELSE Continue(e))
            ELSE Err("Condition must evaluate to a boolean"))
      [] stmt.tag = "Block" -> execute_block(stmt.kids, e)
      [] stmt.tag = "While" ->
            With(eval(stmt.kids[1], e), LAMBDA value :
            IF Failed(value) THEN Early(value)
            ELSE while_loop(stmt.kids[1], stmt.kids[2], e, value.val[1], 0))
      [] stmt.tag = "AssertTrue" -> execute_assert(stmt.kids[1], stmt.s, CTrue, e)
      [] stmt.tag = "AssertFalse" -> execute_assert(stmt.kids[1], stmt.s, CFalse, e)
      [] stmt.tag = "AssertEQ" ->
            execute_assert_eq(stmt.kids[1], stmt.kids[2], stmt.s, "AssertTrue", e)
      [] stmt.tag = "AssertNEQ" ->
            execute_assert_eq(stmt.kids[1], stmt.kids[2], stmt.s, "AssertFalse", e)
      [] stmt.tag = "AssertFails" -> Err(stmt.s)
      [] stmt.tag = "TestDef" ->
            LET test == stmt.kids[1]
            IN IF test.kids = <<>> THEN Early(Panic)
               ELSE Continue(insert_test(e, test.s,
                        [test EXCEPT !.kids = <<Sequence(test.kids[1], Return(CVoid))>>]))
      [] stmt.tag = "ModTestDef" ->
            With(execute(stmt.kids[1], mod_test_env(e)), LAMBDA r :
            IF r.kind = "Continue"
            THEN Continue(insert_variable(e, stmt.s,
                              TestEnvironmentValue("__test__", r.env[1])))
            ELSE Early(r))
      [] stmt.tag = "Sequence" ->
            With(execute(stmt.kids[1], e), LAMBDA r :
            IF r.kind = "Continue" THEN execute(stmt.kids[2], r.env[1])
            ELSE Early(r))
      [] stmt.tag = "FuncDef" ->
            Continue(insert_variable(e, stmt.kids[1].s, stmt.kids[1]))
      [] stmt.tag = "Return" ->
            With(eval(stmt.kids[1], e), LAMBDA exp_value :
            IF Failed(exp_value) THEN Early(exp_value)
            ELSE ReturnValue(exp_value.val[1]))
      [] stmt.tag = "ADTDeclaration" -> Continue(insert_type(e, stmt.s, stmt.kids))
      [] stmt.tag = "Match" ->
            With(eval(stmt.kids[1], e), LAMBDA value :
            IF Failed(value) THEN Early(value)
            ELSE match_cases(value.val[1], Tail(stmt.kids), e))
      [] OTHER -> Err("not implemented yet")

\* the final match on `result`: a failure whose message is "Propagate" goes
\* to propagate_error(opt.unwrap(), env), every other one loses its payload
intercept(r, e) ==
    IF r.kind # "Err" THEN r
    ELSE IF r.msg # "Propagate" THEN Err(r.msg)
    ELSE IF r.opt = <<>> THEN Panic
    ELSE propagate_error(r.opt[1], e)

execute(stmt, e) ==
    With(execute_statement(stmt, e), LAMBDA r :
    IF r.early THEN [r EXCEPT !.early = FALSE] ELSE intercept(r, e))

\* a block each statement of which starts from the environment of the block
RECURSIVE execute_block_same_env(_, _)
execute_block_same_env(stmts, e) ==
    IF stmts = <<>> THEN Continue(e)
    ELSE With(execute(stmts[1], e), LAMBDA r :
         IF r.kind = "Continue"
         THEN (IF Len(stmts) = 1 THEN r ELSE execute_block_same_env(Tail(stmts), e))
         ELSE r)

execute_block(stmts, e) ==
    IF stmts = <<>> THEN Continue(e)
    ELSE With(execute(stmts[1], e), LAMBDA r :
         IF r.kind = "Continue" THEN execute_block(Tail(stmts), r.env[1])
         ELSE r)

\* Err((s, _)) => Err(s)
run(stmt, e) ==
    With(execute(stmt, e), LAMBDA r :
    IF r.kind = "Err" THEN Err(r.msg) ELSE r)

----------------------------------------------------------------------------
(* The test harness (interpreter.rs) *)

\* Ok(results): the HashSet of (module::test, status, Option<detail>)
\* triples, the Option as a sequence of length 0 or 1
TestsOk(results) == [Res("Ok") EXCEPT !.val = <<results>>]

\* the new test_env and the triple that one pass of the loop inserts
Recorded(test_env, triple) == [Res("Recorded") EXCEPT !.env = <<test_env>>,
                                                      !.val = <<triple>>]

\* `return Ok(results)` from inside the loop
ReturnResults == Res("ReturnResults")

\* one test: run(FuncDef(real_test), &test_env), then eval of the call of
\* the test without arguments and the classification of its outcome
invoke_test(mod_test, test, real_test, test_env) ==
    With(run(FuncDef(real_test), test_env), LAMBDA r :
    IF r.kind = "Continue"
    THEN With(eval(FuncCall(test, <<>>), r.env[1]), LAMBDA v :
         IF v.kind = "Ok"
         THEN Recorded(r.env[1], <<mod_test \o "::" \o test, "Passou", <<>>>>)
         ELSE IF v.kind = "Err"
         THEN Recorded(r.env[1], <<mod_test \o "::" \o test, "Falhou",
                                   <<"Erro: " \o v.msg>>>>)
         ELSE v)
    ELSE IF r.kind = "Return" THEN ReturnResults
    ELSE r)

\* for (test, real_test) in test_frame.clone().tests.into_iter(): names are
\* the keys of tests in the order the iterator yields them
RECURSIVE module_tests_loop(_, _, _, _, _)
module_tests_loop(mod_test, names, tests, test_env, results) ==
    IF names = <<>> THEN TestsOk(results)
    ELSE With(invoke_test(mod_test, names[1], tests[names[1]], test_env),
              LAMBDA r :
         IF r.kind = "Recorded"
         THEN module_tests_loop(mod_test, Tail(names), tests, r.env[1],
                                results \cup {r.val[1]})
         ELSE IF r.kind = "ReturnResults" THEN Early(TestsOk(results))
         ELSE Early(r))

\* the keys of a HashMap in the order its iterator yields them: the order is
\* not specified, and is given here by a sequence that lists every name
IterationOrder(map, order) == SelectSeq(order, LAMBDA name : name \in DOMAIN map)

\* for (mod_test, test) in tests_set: test is <<>> for None, <<name>> for
\* Some(name)
RECURSIVE tests_set_loop(_, _, _, _)
tests_set_loop(tests_set, frame, order, results) ==
    IF tests_set = <<>> THEN TestsOk(results)
    ELSE LET mod_test == tests_set[1][1]
             test == tests_set[1][2]
         IN IF \/ mod_test \notin DOMAIN frame.variables
               \/ frame.variables[mod_test].tag # "TestEnvironment"
            THEN Err(mod_test \o " is not a ModTest")
            ELSE LET test_env == frame.variables[mod_test].envs[1]
                 IN IF scope_key(test_env) \notin DOMAIN test_env.stack THEN Panic
                    ELSE LET test_frame == test_env.stack[scope_key(test_env)]
                         IN IF test # <<>> /\ test[1] \notin DOMAIN test_frame.tests
                            THEN Err(test[1] \o " is not a test")
                            ELSE With(module_tests_loop(mod_test,
                                          IF test # <<>> THEN test
                                          ELSE IterationOrder(test_frame.tests, order),
                                          test_frame.tests, test_env, results),
                                      LAMBDA r :
                                 IF r.early THEN [r EXCEPT !.early = FALSE]
                                 ELSE tests_set_loop(Tail(tests_set), frame, order,
                                                     r.val[1]))

execute_tests(tests_set, e, order) ==
    IF scope_key(e) \notin DOMAIN e.stack THEN Panic
    ELSE tests_set_loop(tests_set, e.stack[scope_key(e)], order, {})

----------------------------------------------------------------------------
(* The session: a caller holding one Environment, who executes statements  *)
(* into it, and evaluates expressions and runs statements against it       *)

Init ==
    /\ env = NewEnvironment
    /\ result = Res("None")
    /\ op = "new"
    /\ input = CVoid
    /\ steps = 0

\* an _execute_with_env_ that executes into env in place: when the second
\* statement of a Sequence fails, what the first did to env stays
ExecuteInPlace(stmts) ==
    \E stmt \in stmts :
        /\ steps < MaxSteps
        /\ result' = execute(stmt, env)
        /\ env' = IF result'.kind = "Continue" THEN result'.env[1]
                  ELSE IF stmt.tag = "Sequence"
                          /\ execute(stmt.kids[1], env).kind = "Continue"
                       THEN execute(stmt.kids[1], env).env[1]
                  ELSE env
        /\ op' = "execute_with_env"
        /\ input' = stmt
        /\ steps' = steps + 1

\* _execute_with_env_(stmt, &mut env): the environment is replaced when the
\* statement continues
ExecuteWithEnv(stmts) ==
    \E stmt \in stmts :
        /\ steps < MaxSteps
        /\ result' = execute(stmt, env)
        /\ env' = IF result'.kind = "Continue" THEN result'.env[1] ELSE env
        /\ op' = "execute_with_env"
        /\ input' = stmt
        /\ steps' = steps + 1

\* env.insert_frame(func)
InsertFrame(funcs) ==
    \E func \in funcs :
        /\ steps < MaxSteps
        /\ env' = insert_frame(env, func)
        /\ result' = Res("None")
        /\ op' = "insert_frame"
        /\ input' = func
        /\ steps' = steps + 1

\* env.remove_frame(), called where a frame was inserted and not yet removed
RemoveFrame ==
    /\ env.recursion > 0
    /\ result' = remove_frame(env)
    /\ env' = IF result'.kind = "Continue" THEN result'.env[1] ELSE env
    /\ op' = "remove_frame"
    /\ input' = CVoid
    /\ UNCHANGED steps

\* run(stmt, &env)
Run(stmts) ==
    \E stmt \in stmts :
        /\ result' = run(stmt, env)
        /\ op' = "run"
        /\ input' = stmt
        /\ UNCHANGED <<env, steps>>

\* execute_tests(tests_set, &env), the maps iterated in some order
ExecuteTests(tests_sets, orders) ==
    \E tests_set \in tests_sets, order \in orders :
        /\ result' = execute_tests(tests_set, env, order)
        /\ op' = "execute_tests"
        /\ input' = [Node("TestsSet") EXCEPT !.kids = tests_set, !.names = order]
        /\ UNCHANGED <<env, steps>>

\* eval(exp, &env)
Eval(exps) ==
    \E exp \in exps :
        /\ result' = eval(exp, env)
        /\ op' = "eval"
        /\ input' = exp
        /\ UNCHANGED <<env, steps>>

----------------------------------------------------------------------------
(* Propagate in every statement form *)

\* what Propagate is applied to
PropagateOperands ==
    {CErr(CInt(1)), CErr(CString("boom")), CErr(CFalse), CNothing,
     COk(CInt(2)), Var("r")}

\* f hands the failure of Propagate back through Return, g from inside a Block
PropagateSetup ==
    {Assignment("r", CErr(CInt(3))),
     Assignment("r", CNothing),
     FuncDef(Function("f", <<"a">>, <<Return(Propagate(Var("a")))>>)),
     FuncDef(Function("g", <<"a">>, <<Block(<<Return(Propagate(Var("a")))>>)>>))}

PropagateScopes == {Function("scope", <<>>, <<>>)}

PropagateForms ==
    {"Assignment", "AssignmentNested", "IfCondition", "Return", "MatchScrutinee",
     "SequenceFirst", "SequenceSecond", "Block", "IfBranch", "WhileCondition",
     "WhileBody", "AssertTrue", "AssertEQ", "ModTestDef", "MatchBody",
     "CallArgument", "CallBodyReturn", "CallBodyBlock"}

\* the statement of the form that applies Propagate to e
PropagateStmt(form, e) ==
    CASE form = "Assignment" -> Assignment("x", Propagate(e))
      [] form = "AssignmentNested" -> Assignment("x", Add(Propagate(e), CInt(1)))
      [] form = "IfCondition" -> IfThenElse(Propagate(e), <<Return(CInt(0))>>)
      [] form = "Return" -> Return(Propagate(e))
      [] form = "MatchScrutinee" -> Match(Propagate(e), <<CInt(2), Return(CInt(0))>>)
      [] form = "SequenceFirst" ->
            Sequence(Assignment("x", Propagate(e)), Return(Var("x")))
      [] form = "SequenceSecond" ->
            Sequence(Assignment("y", CInt(0)), Assignment("x", Propagate(e)))
      [] form = "Block" -> Block(<<Assignment("x", Propagate(e))>>)
      [] form = "IfBranch" -> IfThenElse(CTrue, <<Assignment("x", Propagate(e))>>)
      [] form = "WhileCondition" -> While(Propagate(e), Return(CInt(0)))
      [] form = "WhileBody" -> While(CTrue, Return(Propagate(e)))
      [] form = "AssertTrue" -> AssertTrue(Propagate(e), "assertion failed")
      [] form = "AssertEQ" -> AssertEQ(Propagate(e), CInt(2), "assertion failed")
      [] form = "ModTestDef" -> ModTestDef("m", Assignment("x", Propagate(e)))
      [] form = "MatchBody" ->
            Match(CInt(1), <<CInt(1), Assignment("x", Propagate(e))>>)
      [] form = "CallArgument" ->
            Assignment("x", FuncCall("f", <<Propagate(e)>>))
      [] form = "CallBodyReturn" -> Assignment("x", FuncCall("f", <<e>>))
      [] form = "CallBodyBlock" -> Assignment("x", FuncCall("g", <<e>>))

PropagatePrograms ==
    {PropagateStmt(form, e) : form \in PropagateForms, e \in PropagateOperands}

NextPropagate ==
    \/ ExecuteWithEnv(PropagateSetup)
    \/ InsertFrame(PropagateScopes)
    \/ Run(PropagatePrograms)

SpecPropagate == Init /\ [][NextPropagate]_vars

\* whether the statement of the form evaluates its Propagate in environment e:
\* a call does so when the function is there to be called
AppliesPropagate(form, e) ==
    CASE form \in {"CallArgument", "CallBodyReturn"} ->
            search_frame(e, "f") # <<>> /\ IsFunc(search_frame(e, "f")[1])
      [] form = "CallBodyBlock" ->
            search_frame(e, "g") # <<>> /\ IsFunc(search_frame(e, "g")[1])
      [] OTHER -> TRUE

\* the textual rendering of a constant
Rendering(v) ==
    CASE v.tag = "CInt" -> ToString(v.n)
      [] v.tag = "CString" -> v.s
      [] v.tag = "CTrue" -> "True"
      [] v.tag = "CFalse" -> "False"

\* C1: run never returns the failure message "Propagate": whatever statement
\* form applies Propagate to an Err(_) or a Nothing, the sentinel is
\* intercepted by the statement executor
C1_SentinelNeverSurfaced ==
    op = "run" => ~(result.kind = "Err" /\ result.msg = "Propagate")

\* C2: at recursion depth zero a statement of any form that applies Propagate
\* to e fails with "Program terminated with errors: " and the rendering of v
\* when e evaluates to Err(v), and with "... Couldn't unwrap Nothing" when e
\* evaluates to Nothing
C2_TerminatedWithErrors ==
    \A form \in PropagateForms, e \in PropagateOperands :
        (/\ op = "run"
         /\ input = PropagateStmt(form, e)
         /\ env.recursion = 0
         /\ AppliesPropagate(form, env)
         /\ eval(e, env).kind = "Ok"
         /\ eval(e, env).val[1].tag \in {"CErr", "CNothing"})
        => LET v == eval(e, env).val[1]
           IN result = Err("Program terminated with errors: " \o
                           (IF v.tag = "CNothing" THEN "Couldn't unwrap Nothing"
                            ELSE Rendering(v.kids[1])))

----------------------------------------------------------------------------
(* Variable lookup and function calls over a chain of frames *)

Inc == Function("inc", <<"a">>, <<Return(Add(Var("a"), CInt(1)))>>)

IncTwo == Function("inc", <<"a">>, <<Return(Add(Var("a"), CInt(2)))>>)

Twice ==
    Function("twice", <<"a">>,
             <<Return(FuncCall("inc", <<FuncCall("inc", <<Var("a")>>)>>))>>)

\* getx reads a name that only its caller binds
GetX == Function("getx", <<>>, <<Return(Var("x"))>>)

\* the parameter of shadow has the name of a function
Shadow == Function("shadow", <<"inc">>, <<Return(Var("inc"))>>)

\* first reads the first of its two parameters, both reads the two
First == Function("first", <<"a", "b">>, <<Return(Var("a"))>>)

Both == Function("both", <<"a", "b">>, <<Return(Add(Var("a"), Var("b")))>>)

ScopeSetup ==
    {Assignment("x", CInt(1)),
     Assignment("x", CInt(2)),
     Assignment("y", CTrue),
     Block(<<FuncDef(Inc), FuncDef(Twice), FuncDef(GetX), FuncDef(Shadow),
             FuncDef(First), FuncDef(Both)>>),
     Block(<<FuncDef(IncTwo), FuncDef(Twice), FuncDef(GetX),
             Assignment("x", CInt(3))>>)}

ScopeScopes == {Function("scope", <<>>, <<>>), Inc}

ScopeExpressions ==
    {Var("x"), Var("y"), Var("z"), Var("inc"),
     FuncCall("inc", <<CInt(1)>>),
     FuncCall("inc", <<Var("x")>>),
     FuncCall("inc", <<Var("x"), Var("z")>>),
     FuncCall("twice", <<Var("x")>>),
     FuncCall("getx", <<>>),
     FuncCall("getx", <<Var("x")>>),
     FuncCall("shadow", <<Var("x")>>),
     FuncCall("missing", <<CInt(1)>>),
     FuncCall("inc", <<>>),
     FuncCall("first", <<>>),
     FuncCall("first", <<Var("x")>>),
     FuncCall("both", <<CInt(1)>>),
     FuncCall("both", <<CInt(1), Var("x")>>),
     FuncCall("both", <<CInt(1), CInt(2), Var("z")>>)}

NextScope ==
    \/ ExecuteWithEnv(ScopeSetup)
    \/ InsertFrame(ScopeScopes)
    \/ Eval(ScopeExpressions)

SpecScope == Init /\ [][NextScope]_vars

\* whether name is bound in a frame on the parent-key chain from curr_scope
RECURSIVE BoundOnChain(_, _, _)
BoundOnChain(name, e, curr_scope) ==
    /\ curr_scope \in DOMAIN e.stack
    /\ \/ name \in DOMAIN e.stack[curr_scope].variables
       \/ /\ e.stack[curr_scope].parent_key # <<>>
          /\ BoundOnChain(name, e, e.stack[curr_scope].parent_key[1])

\* C3: evaluating Var(name) with name bound in no frame of the chain from the
\* active frame to the root yields an error result, not a panic
C3_UnboundIsLookupFailure ==
    (/\ op = "eval"
     /\ input.tag = "Var"
     /\ ~BoundOnChain(input.s, env, scope_key(env)))
    => result.kind = "Err"

\* the names bound to functions in a frame of the chain from curr_scope
RECURSIVE FunctionsOnChain(_, _)
FunctionsOnChain(e, curr_scope) ==
    LET frame == e.stack[curr_scope]
        here == {name \in DOMAIN frame.variables : IsFunc(frame.variables[name])}
    IN IF frame.parent_key = <<>> THEN here
       ELSE here \cup FunctionsOnChain(e, frame.parent_key[1])

\* e without its plain variables, its tests and its types: what is left is
\* the frame chain with its Function-valued bindings
StripPlain(e) ==
    [e EXCEPT !.type_env = EmptyMap,
              !.stack = [k \in DOMAIN e.stack |->
                  LET vs == e.stack[k].variables
                      fs == {name \in DOMAIN vs : IsFunc(vs[name])}
                  IN [e.stack[k] EXCEPT !.variables = [name \in fs |-> vs[name]],
                                        !.tests = EmptyMap]]]

\* the arguments of a call, each evaluated in e
ArgumentValues(args, e) == [i \in 1..Len(args) |-> eval(args[i], e)]

\* the parameters that params.iter().zip(args) binds
ZippedParams(func, args) ==
    {func.names[i] : i \in 1..(IF Len(args) < Len(func.names) THEN Len(args)
                               ELSE Len(func.names))}

\* C4: the callee's environment holds the Function-valued bindings of the
\* caller's frame chain and the bound parameters and nothing else; the outcome
\* of the call is that of the same call, on the values of the arguments, made
\* from the caller's environment without its plain variables
C4_CallSeesOnlyFunctions ==
    (/\ op = "eval"
     /\ input.tag = "FuncCall"
     /\ search_frame(env, input.s) # <<>>
     /\ IsFunc(search_frame(env, input.s)[1])
     /\ \A i \in 1..Len(input.kids) :
            /\ ArgumentValues(input.kids, env)[i].kind = "Ok"
            /\ is_constant(ArgumentValues(input.kids, env)[i].val[1]))
    => LET func == search_frame(env, input.s)[1]
           values == [i \in 1..Len(input.kids) |->
                          ArgumentValues(input.kids, env)[i].val[1]]
           callee == bind_arguments(func.names, input.kids, env,
                         copy_functions(env, scope_key(env), NewEnvironment)).env[1]
           bound == callee.stack[scope_key(callee)].variables
       IN /\ DOMAIN callee.stack = {<<"__main__", 0>>}
          /\ callee.type_env = EmptyMap
          /\ DOMAIN bound = FunctionsOnChain(env, scope_key(env))
                                \cup ZippedParams(func, input.kids)
          /\ \A name \in DOMAIN bound :
                 name \notin ZippedParams(func, input.kids) => IsFunc(bound[name])
          /\ result = eval(FuncCall(input.s, values), StripPlain(env))

\* a call made where the caller binds x: twice reaches inc, and gets a result
C4_Witness ==
    /\ op = "eval"
    /\ input = FuncCall("twice", <<Var("x")>>)
    /\ search_frame(env, "x") = <<CInt(1)>>
    /\ result = Ok(CInt(3))

----------------------------------------------------------------------------
(* Algebraic data types: construction and Match *)

Shape ==
    ADTDeclaration("Shape",
        <<ValueConstructor("Circle", <<"TReal">>),
          ValueConstructor("Rectangle", <<"TReal", "TReal">>)>>)

Circle(args) == ADTConstructor("Shape", "Circle", args)

Rectangle(args) == ADTConstructor("Shape", "Rectangle", args)

AdtSetup ==
    {Shape,
     Assignment("shape", Circle(<<CReal(5, 1)>>)),
     Assignment("shape", Circle(<<CReal(1, 2)>>)),
     Assignment("shape", Rectangle(<<CReal(3, 1), CReal(4, 1)>>)),
     Assignment("shape", CInt(1)),
     Block(<<Shape, Assignment("five", CReal(5, 1)),
             Assignment("shape", Circle(<<Var("five")>>))>>)}

\* (pattern, body) pairs: constructor patterns without arguments, a
\* constructor pattern with one, constants, and a variable as a pattern
MatchCases ==
    {<<Circle(<<>>), Return(CString("circle"))>>,
     <<Rectangle(<<>>), Return(CString("rectangle"))>>,
     <<Circle(<<CReal(5, 1)>>), Return(CString("circle of 5"))>>,
     <<Circle(<<Add(CReal(2, 1), CReal(3, 1))>>), Return(CString("circle of 2 + 3"))>>,
     <<Circle(<<Var("five")>>), Return(CString("circle of five"))>>,
     <<CInt(1), Return(CString("one"))>>,
     <<CInt(1), Assignment("hit", CInt(1))>>,
     <<Var("y"), Return(CString("variable"))>>}

MatchScrutinees == {Var("shape"), CInt(1), CInt(2)}

MatchPrograms ==
    {Match(e, c) : e \in MatchScrutinees, c \in MatchCases}
    \cup {Match(e, c1 \o c2) : e \in MatchScrutinees, c1 \in MatchCases,
                               c2 \in MatchCases}

\* arguments that evaluate, that abort and that fail
AdtArguments == {CReal(5, 1), Var("undefined"), Unwrap(CNothing)}

AdtArgumentLists ==
    {<<>>} \cup {<<a>> : a \in AdtArguments}
    \cup {<<a, b>> : a \in AdtArguments, b \in AdtArguments}
    \cup {<<a, b, CReal(5, 1)>> : a \in AdtArguments, b \in AdtArguments}

AdtExpressions ==
    {ADTConstructor(adt, ctor, args) :
        adt \in {"Shape", "Color"}, ctor \in {"Circle", "Rectangle", "Triangle"},
        args \in AdtArgumentLists}

NextAdt ==
    \/ ExecuteWithEnv(AdtSetup)
    \/ Run(MatchPrograms)
    \/ Eval(AdtExpressions)

SpecAdt == Init /\ [][NextAdt]_vars

\* what running a body of MatchCases in e gives
BodyOutcome(body, e) ==
    IF body.tag = "Return" THEN ReturnValue(body.kids[1])
    ELSE Continue(insert_variable(e, body.s, body.kids[1]))

\* the pattern matches the value
Matches(value, pattern, e) == matches_pattern(value, pattern, e) = OkBool(TRUE)

\* the pattern is one that can be matched against the value
Supported(value, pattern, e) == matches_pattern(value, pattern, e).kind = "Ok"

\* what Match is to give on the cases: the outcome of the body of the first
\* case that matches
RECURSIVE FirstMatchOutcome(_, _, _)
FirstMatchOutcome(value, cases, e) ==
    IF cases = <<>> THEN Err("No matching pattern found")
    ELSE IF Matches(value, cases[1], e) THEN BodyOutcome(cases[2], e)
    ELSE FirstMatchOutcome(value, Tail(Tail(cases)), e)

\* the cases up to the first that matches hold supported patterns only
RECURSIVE SupportedToFirstMatch(_, _, _)
SupportedToFirstMatch(value, cases, e) ==
    \/ cases = <<>>
    \/ /\ Supported(value, cases[1], e)
       /\ \/ Matches(value, cases[1], e)
          \/ SupportedToFirstMatch(value, Tail(Tail(cases)), e)

\* a Match has been run whose scrutinee evaluates to a value
MatchRan ==
    /\ op = "run"
    /\ input.tag = "Match"
    /\ eval(input.kids[1], env).kind = "Ok"

\* C5 as stated: Match gives the outcome of the body of the lowest-indexed
\* case whose pattern matches the value of the scrutinee, and fails with
\* "No matching pattern found" when no case matches
C5_FirstMatchWins ==
    MatchRan =>
        result = FirstMatchOutcome(eval(input.kids[1], env).val[1],
                                   Tail(input.kids), env)

\* C5, amended: the same, when every pattern tried up to the first match is
\* a supported one; a case with an unsupported pattern that is reached fails
\* the statement with "Pattern not supported"
C5_FirstMatchWinsAmongSupported ==
    MatchRan =>
        LET value == eval(input.kids[1], env).val[1]
        IN IF SupportedToFirstMatch(value, Tail(input.kids), env)
           THEN result = FirstMatchOutcome(value, Tail(input.kids), env)
           ELSE result = Err("Pattern not supported")

\* two cases match 1: the first one's body is the one that ran
C5_Witness ==
    /\ op = "run"
    /\ input = Match(CInt(1), <<CInt(1), Assignment("hit", CInt(1)),
                                CInt(1), Return(CString("one"))>>)
    /\ result = Continue(insert_variable(env, "hit", CInt(1)))

\* the case of MatchCases a constructor pattern without arguments selects
RECURSIVE ConstructorOutcome(_, _)
ConstructorOutcome(value, cases) ==
    IF cases = <<>> THEN Err("No matching pattern found")
    ELSE IF cases[1].s = value.s /\ cases[1].s2 = value.s2
    THEN ReturnValue(cases[2].kids[1])
    ELSE ConstructorOutcome(value, Tail(Tail(cases)))

\* the patterns of the cases are constructor patterns without arguments
RECURSIVE BareConstructorCases(_)
BareConstructorCases(cases) ==
    \/ cases = <<>>
    \/ /\ cases[1].tag = "ADTConstructor"
       /\ cases[1].kids = <<>>
       /\ BareConstructorCases(Tail(Tail(cases)))

\* C6: a Match on a variable bound to an ADT value, over constructor patterns
\* written without arguments, returns the body of the case that names the
\* value's constructor, whatever the value's fields, and passes over the
\* cases that name another constructor
C6_ConstructorSelects ==
    (/\ op = "run"
     /\ input.tag = "Match"
     /\ input.kids[1] = Var("shape")
     /\ search_frame(env, "shape") # <<>>
     /\ search_frame(env, "shape")[1].tag = "ADTConstructor"
     /\ BareConstructorCases(Tail(input.kids)))
    => result = ConstructorOutcome(search_frame(env, "shape")[1], Tail(input.kids))

\* shape is a Circle with a field; the Rectangle case is passed over and the
\* Circle case returns
C6_Witness ==
    /\ op = "run"
    /\ input = Match(Var("shape"),
                     <<Rectangle(<<>>), Return(CString("rectangle")),
                       Circle(<<>>), Return(CString("circle"))>>)
    /\ search_frame(env, "shape") = <<Circle(<<CReal(1, 2)>>)>>
    /\ result = ReturnValue(CString("circle"))

\* the constructor of a declared ADT that input names, as <<vc>>, or <<>>
DeclaredConstructor ==
    IF input.tag = "ADTConstructor" /\ get_type(env, input.s) # <<>>
    THEN find_constructor(get_type(env, input.s)[1], input.s2)
    ELSE <<>>

\* C7: a constructor applied to a number of arguments other than its declared
\* field count fails with the count error, whatever the arguments are, also
\* when an argument's own evaluation would abort or fail
C7_WrongCountFails ==
    (/\ op = "eval"
     /\ DeclaredConstructor # <<>>
     /\ Len(DeclaredConstructor[1].names) # Len(input.kids))
    => result = Err("Error: Constructor " \o input.s2 \o " expects "
                    \o ToString(Len(DeclaredConstructor[1].names))
                    \o " arguments, but received " \o ToString(Len(input.kids)))

\* Rectangle applied to one argument, the evaluation of which would abort
C7_Witness ==
    /\ op = "eval"
    /\ input = Rectangle(<<Var("undefined")>>)
    /\ DeclaredConstructor # <<>>
    /\ eval(Var("undefined"), env).kind = "Panic"
    /\ result.kind = "Err"

----------------------------------------------------------------------------
(* Unwrap, IsError and IsNothing *)

OptionSetup ==
    {Shape,
     FuncDef(Inc),
     Assignment("r", COk(CInt(1))),
     Assignment("r", CErr(CString("boom"))),
     Assignment("r", CNothing),
     Assignment("r", CJust(CTrue))}

OptionOperands ==
    {CJust(CInt(1)), COk(CTrue), COk(CErr(CInt(2))), CJust(CNothing),
     CJust(Add(CInt(1), CInt(2))), CErr(CInt(3)), CErr(COk(CInt(4))), CNothing,
     CInt(5), CString("s"), CVoid, Circle(<<CReal(5, 1)>>),
     Var("r"), Var("inc"), Var("undefined"), Unwrap(CNothing), COk(Var("undefined"))}

OptionExpressions ==
    {Unwrap(e) : e \in OptionOperands}
    \cup {IsError(e) : e \in OptionOperands}
    \cup {IsNothing(e) : e \in OptionOperands}

NextOption ==
    \/ ExecuteWithEnv(OptionSetup)
    \/ Eval(OptionExpressions)

SpecOption == Init /\ [][NextOption]_vars

\* the operand of input evaluates to a value
OperandValue == eval(input.kids[1], env)

\* C8: Unwrap(e) succeeds exactly when e evaluates to Just(x) or Ok(x), and
\* then yields x; on every other result of e it fails
C8_UnwrapOpensJustAndOk ==
    (op = "eval" /\ input.tag = "Unwrap") =>
        IF OperandValue.kind = "Ok" /\ OperandValue.val[1].tag \in {"CJust", "COk"}
        THEN result = Ok(OperandValue.val[1].kids[1])
        ELSE result.kind # "Ok"

\* r is bound to Err(_), and Unwrap(r) has failed
C8_Witness ==
    /\ op = "eval"
    /\ input = Unwrap(Var("r"))
    /\ search_frame(env, "r") = <<CErr(CString("boom"))>>
    /\ result = Err("Program panicked trying to unwrap.")

\* what the predicate of input answers on the value v
PredicateAnswer(v) ==
    IF \/ input.tag = "IsError" /\ v.tag = "CErr"
       \/ input.tag = "IsNothing" /\ v.tag = "CNothing"
    THEN Ok(CTrue) ELSE Ok(CFalse)

\* C9 as stated: IsError(e) and IsNothing(e) never fail, and answer true
\* exactly on Err(_) and on Nothing
C9_PredicatesNeverFail ==
    (op = "eval" /\ input.tag \in {"IsError", "IsNothing"}) =>
        /\ result.kind = "Ok"
        /\ OperandValue.kind = "Ok" => result = PredicateAnswer(OperandValue.val[1])

\* C9, amended: when e evaluates to a value, IsError(e) and IsNothing(e)
\* answer true exactly on Err(_) and on Nothing and false on every other
\* value; when the evaluation of e fails or aborts, so does the predicate
C9_PredicatesTotalOnValues ==
    (op = "eval" /\ input.tag \in {"IsError", "IsNothing"}) =>
        IF OperandValue.kind = "Ok"
        THEN result = PredicateAnswer(OperandValue.val[1])
        ELSE result = OperandValue

\* IsError of an integer has answered false
C9_Witness ==
    /\ op = "eval"
    /\ input = IsError(CInt(5))
    /\ result = Ok(CFalse)

----------------------------------------------------------------------------
(* Arithmetic on two integers, as a function of its operands *)

ArithOperands == {MinInt, MinInt + 1, MaxInt - 1, MaxInt} \cup (-7..7)

ArithInputs ==
    {Binary(o, CInt(a), CInt(b)) :
        o \in {"Add", "Sub", "Mul", "Div"}, a \in ArithOperands, b \in ArithOperands}

InitArith ==
    /\ env = NewEnvironment
    /\ result = Res("None")
    /\ op = "new"
    /\ input \in ArithInputs
    /\ steps = 0

\* eval(input, &env), once
EvalInput ==
    /\ op = "new"
    /\ result' = eval(input, env)
    /\ op' = "eval"
    /\ UNCHANGED <<env, input, steps>>

NextArith == EvalInput

SpecArith == InitArith /\ [][NextArith]_vars

\* the quotient of a by b truncated toward zero
TruncQuot(a, b) == Sign(a) * Sign(b) * (Abs(a) \div Abs(b))

\* Div(CInt(a), CInt(b)) with b # 0 has been evaluated
DivRan ==
    /\ op = "eval"
    /\ input.tag = "Div"
    /\ input.kids[2].n # 0

\* C10 as stated: Div(CInt(a), CInt(b)) with b # 0 yields CInt(q), q the
\* quotient of a by b truncated toward zero
C10_DivTruncates ==
    DivRan => result = Ok(CInt(TruncQuot(input.kids[1].n, input.kids[2].n)))

\* C10, amended: the same, but for the least integer divided by -1, whose
\* quotient is no integer of the width and which yields the greatest integer
C10_DivTruncatesOrSaturates ==
    DivRan =>
        result = Ok(CInt(IF input.kids[1].n = MinInt /\ input.kids[2].n = -1
                         THEN MaxInt
                         ELSE TruncQuot(input.kids[1].n, input.kids[2].n)))

\* -7 divided by 2 is -3
C10_Witness ==
    /\ op = "eval"
    /\ input = Div(CInt(-7), CInt(2))
    /\ result = Ok(CInt(-3))

\* the integer nearest to x in the range of the integer type
Clamp(x) == IF x > MaxInt THEN MaxInt ELSE IF x < MinInt THEN MinInt ELSE x

\* the mathematical result of Add, Sub and Mul on a and b
Exact(tag, a, b) ==
    CASE tag = "Add" -> a + b
      [] tag = "Sub" -> a - b
      [] tag = "Mul" -> a * b

\* an arithmetic expression on two integers has been evaluated
ArithRan == op = "eval" /\ input.tag \in {"Add", "Sub", "Mul", "Div"}

\* C11 as stated: arithmetic on two integers never fails; Add, Sub and Mul
\* yield the exact result clamped to the bounds of the integer range, and
\* Div(a, 0) yields the upper or the lower bound
C11_ArithSaturates ==
    ArithRan =>
        /\ result.kind = "Ok"
        /\ input.tag # "Div" =>
               result = Ok(CInt(Clamp(Exact(input.tag, input.kids[1].n,
                                            input.kids[2].n))))
        /\ (input.tag = "Div" /\ input.kids[2].n = 0) =>
               result \in {Ok(CInt(MaxInt)), Ok(CInt(MinInt))}

\* C11, amended: the same, with Div(a, 0) yielding the upper bound for a > 0,
\* the lower bound for a < 0 and, 0/0 being no infinity, 0 for a = 0
C11_ArithSaturatesOrZero ==
    ArithRan =>
        /\ result.kind = "Ok"
        /\ input.tag # "Div" =>
               result = Ok(CInt(Clamp(Exact(input.tag, input.kids[1].n,
                                            input.kids[2].n))))
        /\ (input.tag = "Div" /\ input.kids[2].n = 0) =>
               result = Ok(CInt(IF input.kids[1].n > 0 THEN MaxInt
                                ELSE IF input.kids[1].n < 0 THEN MinInt
                                ELSE 0))

\* the greatest integer plus one is the greatest integer
C11_Witness ==
    /\ op = "eval"
    /\ input = Add(CInt(MaxInt), CInt(1))
    /\ result = Ok(CInt(MaxInt))

----------------------------------------------------------------------------
(* The While loop: the summation program *)

\* while x > 0 { y = y + x; x = x - 1 }
SumLoop ==
    While(GT(Var("x"), CInt(0)),
          Sequence(Assignment("y", Add(Var("y"), Var("x"))),
                   Assignment("x", Sub(Var("x"), CInt(1)))))

\* x = n; y = 0; while x > 0 { y = y + x; x = x - 1 }
Summation(n) ==
    Sequence(Assignment("x", CInt(n)),
             Sequence(Assignment("y", CInt(0)), SumLoop))

\* the values of n: the loop is followed to its end for each of them
SumRange == 0..MaxIter

\* the statements that set x and y before the loop is run alone
LoopSetup ==
    {Assignment("x", CInt(n)) : n \in SumRange}
    \cup {Assignment("y", CInt(m)) : m \in 0..3}
    \cup {Assignment("z", CTrue)}

LoopPrograms == {Summation(n) : n \in SumRange} \cup {SumLoop}

NextLoop ==
    \/ ExecuteWithEnv(LoopSetup)
    \/ Run(LoopPrograms)

SpecLoop == Init /\ [][NextLoop]_vars

\* 1 + 2 + ... + n
RECURSIVE SumTo(_)
SumTo(n) == IF n = 0 THEN 0 ELSE n + SumTo(n - 1)

\* C12: the summation program for n ends with Continue, and with x = 0 and
\* y = n(n+1)/2 in an environment that differs in x and y only from the one
\* it started in; the loop alone, started with x = a and y = b, goes on until
\* x is 0 and ends with y = b + a(a+1)/2
C12_SummationTerminates ==
    /\ \A n \in SumRange :
           (op = "run" /\ input = Summation(n)) =>
               result = Continue(insert_variable(insert_variable(env, "x", CInt(0)),
                                                 "y", CInt((n * (n + 1)) \div 2)))
    /\ \A a \in SumRange, b \in 0..3 :
           (/\ op = "run"
            /\ input = SumLoop
            /\ search_frame(env, "x") = <<CInt(a)>>
            /\ search_frame(env, "y") = <<CInt(b)>>)
           => result = Continue(insert_variable(insert_variable(env, "x", CInt(0)),
                                                "y", CInt(b + SumTo(a))))

\* the program for n = 10 has ended with y = 55
C12_Witness ==
    /\ op = "run"
    /\ input = Summation(10)
    /\ result.kind = "Continue"
    /\ search_frame(result.env[1], "x") = <<CInt(0)>>
    /\ search_frame(result.env[1], "y") = <<CInt(55)>>

----------------------------------------------------------------------------
(* Recursion: the fibonacci program *)

\* def fibonacci(n): if n < 1: return 0; if n <= 2: return n - 1;
\*                    return fibonacci(n - 1) + fibonacci(n - 2)
Fibonacci ==
    Function("fibonacci", <<"n">>,
        <<Sequence(
            IfThenElse(LT(Var("n"), CInt(1)), <<Return(CInt(0))>>),
            Sequence(
                IfThenElse(LTE(Var("n"), CInt(2)), <<Return(Sub(Var("n"), CInt(1)))>>),
                Return(Add(FuncCall("fibonacci", <<Sub(Var("n"), CInt(1))>>),
                           FuncCall("fibonacci", <<Sub(Var("n"), CInt(2))>>)))))>>)

\* def fibonacci(n) ...; fib = fibonacci(n)
FibProgram(n) ==
    Sequence(FuncDef(Fibonacci),
             Assignment("fib", FuncCall("fibonacci", <<CInt(n)>>)))

\* the arguments of the call: the evaluation of a call nests inside that of
\* its caller, and four calls deep is as far as the model follows it
FibRange == (-1)..4

\* the caller's own n and fib, a fibonacci already defined, and a fibonacci
\* that is no function
FibSetup ==
    {FuncDef(Fibonacci), Assignment("fibonacci", CInt(0)),
     Assignment("fib", CInt(0))}
    \cup {Assignment("n", CInt(k)) : k \in {0, 3, 4}}

FibScopes == {Function("scope", <<>>, <<>>), Fibonacci}

FibPrograms ==
    {FibProgram(n) : n \in FibRange}
    \cup {Assignment("fib", FuncCall("fibonacci", <<CInt(n)>>)) : n \in FibRange}
    \cup {Assignment("fib", FuncCall("fibonacci", <<Var("n")>>))}

NextRecursion ==
    \/ ExecuteWithEnv(FibSetup)
    \/ InsertFrame(FibScopes)
    \/ Run(FibPrograms)

SpecRecursion == Init /\ [][NextRecursion]_vars

\* the Fibonacci numbers 0, 1, 1, 2, 3, 5, ...
RECURSIVE Fib(_)
Fib(k) == IF k <= 0 THEN 0 ELSE IF k = 1 THEN 1 ELSE Fib(k - 1) + Fib(k - 2)

\* C13: the program that defines fibonacci and assigns fib = fibonacci(n) ends
\* with Continue, in the environment it started in with fibonacci defined and
\* fib bound to the (n-1)th Fibonacci number (to 0 for n < 1); the same
\* holds for the assignment alone where fibonacci is already defined
C13_FibonacciRecurses ==
    /\ \A n \in FibRange :
           (op = "run" /\ input = FibProgram(n)) =>
               result = Continue(insert_variable(
                            insert_variable(env, "fibonacci", Fibonacci),
                            "fib", CInt(Fib(n - 1))))
    /\ \A n \in FibRange :
           (/\ op = "run"
            /\ input = Assignment("fib", FuncCall("fibonacci", <<CInt(n)>>))
            /\ search_frame(env, "fibonacci") = <<Fibonacci>>)
           => result = Continue(insert_variable(env, "fib", CInt(Fib(n - 1))))

\* fib = fibonacci(4) has bound fib to 2, by way of fibonacci(3), which
\* itself called fibonacci(2) and fibonacci(1)
C13_Witness ==
    /\ op = "run"
    /\ input = FibProgram(4)
    /\ result.kind = "Continue"
    /\ search_frame(result.env[1], "fib") = <<CInt(2)>>

----------------------------------------------------------------------------
(* Test modules and the test harness *)

\* a test that passes where inc is defined
TestPass ==
    Function("t_pass", <<>>,
             <<AssertEQ(FuncCall("inc", <<CInt(1)>>), CInt(2), "inc is wrong")>>)

\* a test that fails
TestFail == Function("t_fail", <<>>, <<AssertTrue(CFalse, "expected failure")>>)

\* a test that reads a variable of the scope the module is defined in
TestVar ==
    Function("t_var", <<>>, <<AssertEQ(Var("x"), CInt(1), "x is not 1")>>)

\* a test that returns, and a test that calls it
TestRet == Function("t_ret", <<>>, <<Return(CTrue)>>)

TestCalls == Function("t_calls", <<>>, <<Return(FuncCall("t_ret", <<>>))>>)

\* the fourth and fifth bodies read a variable and use a type of the
\* enclosing scope
TestModuleBodies ==
    {TestDef(TestPass),
     Sequence(TestDef(TestPass), TestDef(TestFail)),
     Sequence(TestDef(TestFail), TestDef(TestVar)),
     Sequence(Assignment("seen", Var("x")), TestDef(TestPass)),
     Sequence(Assignment("shape", Circle(<<CReal(5, 1)>>)), TestDef(TestFail)),
     Sequence(TestDef(TestRet), TestDef(TestCalls))}

TestSetup ==
    {FuncDef(Inc), Assignment("x", CInt(1)), Shape, TestDef(TestVar)}
    \cup {ModTestDef(name, body) : name \in {"m", "k"}, body \in TestModuleBodies}

\* (module, None) as <<module, <<>>>>, (module, Some(test)) as
\* <<module, <<test>>>>
TestSelections ==
    {<<"m", <<>>>>, <<"k", <<>>>>, <<"x", <<>>>>,
     <<"m", <<"t_pass">>>>, <<"m", <<"t_fail">>>>, <<"m", <<"t_var">>>>}

TestsSets ==
    {<<sel>> : sel \in TestSelections}
    \cup {<<<<"m", <<>>>>, <<"k", <<>>>>>>,
          <<<<"m", <<"t_fail">>>>, <<"m", <<>>>>>>,
          <<<<"m", <<"t_fail">>>>, <<"m", <<"t_pass">>>>>>,
          <<<<"m", <<"t_var">>>>, <<"m", <<"t_pass">>>>>>,
          <<<<"x", <<>>>>, <<"m", <<>>>>>>}

\* the two directions in which a table of two tests can be iterated
TestOrders ==
    {<<"t_pass", "t_fail", "t_var", "t_ret", "t_calls">>,
     <<"t_calls", "t_ret", "t_var", "t_fail", "t_pass">>}

NextTests ==
    \/ ExecuteWithEnv(TestSetup)
    \/ ExecuteTests(TestsSets, TestOrders)

SpecTests == Init /\ [][NextTests]_vars

\* name is bound to a test module in the active frame of e
IsModule(e, name) ==
    /\ search_frame(e, name) # <<>>
    /\ search_frame(e, name)[1].tag = "TestEnvironment"

\* the environment of the module, and the test table of its active frame
ModuleEnv(e, name) == search_frame(e, name)[1].envs[1]

ModuleTests(e, name) == ModuleEnv(e, name).stack[scope_key(ModuleEnv(e, name))].tests

\* every selection of the set names a module of e and, if it names a test,
\* a test registered in the module
WellSelected(tests_set, e) ==
    \A i \in 1..Len(tests_set) :
        /\ IsModule(e, tests_set[i][1])
        /\ tests_set[i][2] # <<>> =>
               tests_set[i][2][1] \in DOMAIN ModuleTests(e, tests_set[i][1])

\* the (module, test) pairs the set selects
SelectedTests(tests_set, e) ==
    UNION {IF tests_set[i][2] = <<>>
           THEN {<<tests_set[i][1], t>> : t \in DOMAIN ModuleTests(e, tests_set[i][1])}
           ELSE {<<tests_set[i][1], tests_set[i][2][1]>>} : i \in 1..Len(tests_set)}

\* whether the expression or statement calls the function name
RECURSIVE Calls(_, _)
Calls(node, name) ==
    \/ node.tag = "FuncCall" /\ node.s = name
    \/ \E i \in 1..Len(node.kids) : Calls(node.kids[i], name)

\* a test of a selected module calls a test of that module
TestCallsTest ==
    \E i \in 1..Len(input.kids) :
        \E t, u \in DOMAIN ModuleTests(env, input.kids[i][1]) :
            Calls(ModuleTests(env, input.kids[i][1])[t], u)

\* invoking the test: the call of the test, registered as a function in the
\* environment of its module, without arguments
Invocation(e, name, test) ==
    eval(FuncCall(test, <<>>),
         insert_variable(ModuleEnv(e, name), test, ModuleTests(e, name)[test]))

\* the record of the test: passed without detail when the invocation
\* succeeds, failed with the failure message otherwise
TestRecord(e, name, test) ==
    IF Invocation(e, name, test).kind = "Ok"
    THEN <<name \o "::" \o test, "Passou", <<>>>>
    ELSE <<name \o "::" \o test, "Falhou",
           <<"Erro: " \o Invocation(e, name, test).msg>>>>

\* C14: execute_tests returns the set holding one record for every selected
\* test and no other: passed when invoking the test succeeds, failed with the
\* failure message when it does not; no test keeps the others from being run
\* and recorded
C14_OneRecordPerTest ==
    (op = "execute_tests" /\ WellSelected(input.kids, env)) =>
        result = TestsOk({TestRecord(env, st[1], st[2]) :
                              st \in SelectedTests(input.kids, env)})

\* C14, where no selected test aborts the interpreter, the invocation of
\* each returning a value or a failure, and none calls a test of its module
C14_OneRecordPerReturningTest ==
    (/\ op = "execute_tests"
     /\ WellSelected(input.kids, env)
     /\ ~TestCallsTest
     /\ \A st \in SelectedTests(input.kids, env) :
            Invocation(env, st[1], st[2]).kind \in {"Ok", "Err"})
    => result = TestsOk({TestRecord(env, st[1], st[2]) :
                             st \in SelectedTests(input.kids, env)})

\* a module of a passing and a failing test has given its two records
C14_BothRecorded ==
    /\ op = "execute_tests"
    /\ input.kids = <<<<"m", <<>>>>>>
    /\ result = TestsOk({<<"m::t_pass", "Passou", <<>>>>,
                          <<"m::t_fail", "Falhou", <<"Erro: expected failure">>>>})

----------------------------------------------------------------------------
(* ModTestDef: the module and the enclosing environment *)

\* m2 over m1
Merge(m1, m2) ==
    [k \in DOMAIN m1 \cup DOMAIN m2 |-> IF k \in DOMAIN m2 THEN m2[k] ELSE m1[k]]

\* the tests a module body defines by TestDef, by name, each with the body
\* Sequence(original body, Return(CVoid))
RECURSIVE DefinedTests(_)
DefinedTests(stmt) ==
    IF stmt.tag = "TestDef"
    THEN stmt.kids[1].s :>
             [stmt.kids[1] EXCEPT
                  !.kids = <<Sequence(stmt.kids[1].kids[1], Return(CVoid))>>]
    ELSE IF stmt.tag = "Sequence"
    THEN Merge(DefinedTests(stmt.kids[1]), DefinedTests(stmt.kids[2]))
    ELSE EmptyMap

\* the step executes a ModTestDef, which completes with Continue
ModTestDefContinues ==
    /\ op' = "execute_with_env"
    /\ input'.tag = "ModTestDef"
    /\ result'.kind = "Continue"

\* the environment after differs from the one before by the binding of the
\* name to a test module only
OnlyModuleBound(before, after, name) ==
    /\ IsModule(after, name)
    /\ after = insert_variable(before, name, search_frame(after, name)[1])
    /\ after.stack[scope_key(after)].tests = before.stack[scope_key(before)].tests

\* C15: a ModTestDef that continues changes the enclosing environment by the
\* binding of its name to a test module only, and the active frame of the
\* module holds in its test table exactly the tests that TestDef defines in
\* the body, each with the body Sequence(original body, Return(CVoid))
C15_ModuleHoldsBodyTests ==
    [][ModTestDefContinues =>
           /\ OnlyModuleBound(env, result'.env[1], input'.s)
           /\ ModuleTests(result'.env[1], input'.s) = DefinedTests(input'.kids[1])]_vars

\* C15, the module holding the tests of the enclosing active frame as well,
\* a test of the body replacing one of the same name
C15_ModuleHoldsEnclosingAndBodyTests ==
    [][ModTestDefContinues =>
           /\ OnlyModuleBound(env, result'.env[1], input'.s)
           /\ ModuleTests(result'.env[1], input'.s)
                  = Merge(env.stack[scope_key(env)].tests,
                          DefinedTests(input'.kids[1]))]_vars

\* a module of two tests is bound where a test was registered before
C15_Witness ==
    /\ op = "execute_with_env"
    /\ input = ModTestDef("m", Sequence(TestDef(TestPass), TestDef(TestFail)))
    /\ result.kind = "Continue"
    /\ DOMAIN env.stack[scope_key(env)].tests = {"t_var"}
    /\ DOMAIN ModuleTests(env, "m") = {"t_var", "t_pass", "t_fail"}

\* C16: the body of a ModTestDef is executed against a new Environment, which
\* holds no variable and no type of the enclosing scope: the environment of the
\* module is the one the body leaves when it starts on Environment::new()
C16_BodyStartsOnNewEnvironment ==
    [][ModTestDefContinues =>
           /\ execute(input'.kids[1], NewEnvironment).kind = "Continue"
           /\ ModuleEnv(result'.env[1], input'.s)
                  = execute(input'.kids[1], NewEnvironment).env[1]]_vars

\* C16, the body starting on a copy of the enclosing environment
C16_BodyStartsOnCopy ==
    [][ModTestDefContinues =>
           /\ execute(input'.kids[1], env).kind = "Continue"
           /\ ModuleEnv(result'.env[1], input'.s)
                  = execute(input'.kids[1], env).env[1]]_vars

\* the body of a module has read a variable of the enclosing scope, and the
\* module holds the variable
C16_Witness ==
    /\ op = "execute_with_env"
    /\ input = ModTestDef("m", Sequence(Assignment("seen", Var("x")),
                                        TestDef(TestPass)))
    /\ result.kind = "Continue"
    /\ search_frame(ModuleEnv(env, "m"), "seen") = <<CInt(1)>>
    /\ search_frame(ModuleEnv(env, "m"), "x") = <<CInt(1)>>

----------------------------------------------------------------------------
(* Assertions *)

AssertSetup ==
    {Assignment("x", CInt(1)), Assignment("x", CInt(2)),
     Assignment("y", CReal(3, 2)), Assignment("y", CInt(1)),
     Assignment("b", CTrue), Assignment("b", CFalse)}

AssertConditions ==
    {CTrue, CFalse, CInt(1), Var("b"), Not(Var("b")),
     EQ(Var("x"), CInt(1)), LT(Var("x"), Var("y"))}

\* the last operand is 0.0 / 0.0
AssertOperands ==
    {CInt(1), CInt(2), CReal(1, 1), CReal(3, 2), Var("x"), Var("y"),
     Div(CReal(0, 1), CReal(0, 1))}

AssertMessages == {"assertion failed", "Propagate"}

AssertPrograms ==
    {AssertTrue(c, msg) : c \in AssertConditions, msg \in AssertMessages}
    \cup {AssertFalse(c, msg) : c \in AssertConditions, msg \in AssertMessages}
    \cup {AssertEQ(l, r, msg) :
              l \in AssertOperands, r \in AssertOperands, msg \in AssertMessages}
    \cup {AssertNEQ(l, r, msg) :
              l \in AssertOperands, r \in AssertOperands, msg \in AssertMessages}
    \cup {AssertFails(msg) : msg \in AssertMessages}

\* statements that fail otherwise than by an assertion of their own, or
\* hold a failing assertion
FailingPrograms ==
    {Assignment("z", Add(CTrue, CInt(1))),
     Assignment("z", Unwrap(CNothing)),
     Assignment("z", Propagate(CNothing)),
     Assignment("z", Propagate(CErr(CString("Propagate")))),
     Assignment("z", FuncCall("missing", <<>>)),
     IfThenElse(CInt(1), <<Block(<<>>)>>),
     While(CTrue, AssertFails("assertion failed")),
     Match(CInt(1), <<CInt(2), Block(<<>>)>>),
     VarDeclaration("z")}
    \cup {Sequence(Assignment("z", CInt(1)), AssertFails(msg)) :
              msg \in AssertMessages}
    \cup {IfThenElse(CTrue, <<AssertTrue(Var("b"), msg)>>) : msg \in AssertMessages}

NextAssert ==
    \/ ExecuteWithEnv(AssertSetup)
    \/ Run(AssertPrograms \cup FailingPrograms)

SpecAssert == Init /\ [][NextAssert]_vars

\* the expression has a numeric value in e
NumericValue(exp, e) ==
    /\ eval(exp, e).kind = "Ok"
    /\ eval(exp, e).val[1].tag \in {"CInt", "CReal"}

\* the condition of an assertion in e, <<TRUE>> or <<FALSE>>: the value of
\* the condition of AssertTrue and AssertFalse, the numeric equality of the
\* operands of AssertEQ and AssertNEQ, integers taken as reals; <<>> when
\* there is no such value
Condition(stmt, e) ==
    IF stmt.tag \in {"AssertTrue", "AssertFalse"}
    THEN IF eval(stmt.kids[1], e) = Ok(CTrue) THEN <<TRUE>>
         ELSE IF eval(stmt.kids[1], e) = Ok(CFalse) THEN <<FALSE>>
         ELSE <<>>
    ELSE IF NumericValue(stmt.kids[1], e) /\ NumericValue(stmt.kids[2], e)
    THEN <<FEq(F64Of(eval(stmt.kids[1], e).val[1]),
               F64Of(eval(stmt.kids[2], e).val[1]))>>
    ELSE <<>>

\* the polarity the statement asserts
Asserted(stmt) == stmt.tag \in {"AssertTrue", "AssertEQ"}

AssertRan ==
    /\ op = "run"
    /\ input.tag \in {"AssertTrue", "AssertFalse", "AssertEQ", "AssertNEQ",
                      "AssertFails"}

\* the outcome the polarity of the condition calls for
ByPolarity ==
    IF input.tag = "AssertFails" THEN result = Err(input.s)
    ELSE /\ Condition(input, env) = <<Asserted(input)>> => result = Continue(env)
         /\ Condition(input, env) = <<~Asserted(input)>> => result = Err(input.s)

\* C17: an assertion whose condition has the asserted polarity continues with
\* the environment it was given, one whose condition has the opposite polarity
\* fails with exactly the message of the statement, and AssertFails(msg)
\* always fails with msg
C17_AssertionsByPolarity == AssertRan => ByPolarity

\* C17 for the statements whose message is not "Propagate"
C17_AssertionsByPolarityOtherMessages ==
    (AssertRan /\ input.s # "Propagate") => ByPolarity

\* an AssertEQ of an integer and a real that differ has failed with its message
C17_FailedWithMessage ==
    /\ op = "run"
    /\ input = AssertEQ(Var("x"), Var("y"), "assertion failed")
    /\ search_frame(env, "x") = <<CInt(1)>>
    /\ search_frame(env, "y") = <<CReal(3, 2)>>
    /\ result = Err("assertion failed")

----------------------------------------------------------------------------
(* Calls with a number of arguments that is not the number of parameters *)

\* whether the expression or statement reads the variable name
RECURSIVE Mentions(_, _)
Mentions(node, name) ==
    \/ node.tag = "Var" /\ node.s = name
    \/ \E i \in 1..Len(node.kids) : Mentions(node.kids[i], name)

\* the smaller of the numbers of parameters and arguments
Zipped(func, args) ==
    IF Len(args) < Len(func.names) THEN Len(args) ELSE Len(func.names)

\* the environment the body of the call starts in
Callee(func, args, e) ==
    bind_arguments(func.names, args, e,
                   copy_functions(e, scope_key(e), NewEnvironment)).env[1]

\* the parameters of func that the callee's environment binds to nothing
UnboundParams(func, args, e) ==
    {func.names[i] : i \in 1..Len(func.names)}
        \ DOMAIN Callee(func, args, e).stack[<<"__main__", 0>>].variables

\* a call of a function of the active frame whose arguments are not as many
\* as its parameters, the arguments that are bound having a value
MismatchedCall ==
    /\ op = "eval"
    /\ input.tag = "FuncCall"
    /\ search_frame(env, input.s) # <<>>
    /\ IsFunc(search_frame(env, input.s)[1])
    /\ Len(input.kids) # Len(search_frame(env, input.s)[1].names)
    /\ \A i \in 1..Zipped(search_frame(env, input.s)[1], input.kids) :
           eval(input.kids[i], env).kind = "Ok"

\* the first min(#params, #args) parameters are bound, in declaration order,
\* to the values of the arguments, and no other parameter is
BindsZipped(func, args, e) ==
    /\ \A i \in 1..Zipped(func, args) :
           search_frame(Callee(func, args, e), func.names[i])
               = <<eval(args[i], e).val[1]>>
    /\ \A i \in (Zipped(func, args) + 1)..Len(func.names) :
           search_frame(Callee(func, args, e), func.names[i]) # <<>>
               => func.names[i] \in FunctionsOnChain(e, scope_key(e))

\* the outcome of a call with too few arguments: of kind `missing` when the
\* body reads a parameter left unbound, a value when it reads none
TooFewSurfacesAs(func, args, e, missing) ==
    Len(args) < Len(func.names) =>
        IF \E name \in UnboundParams(func, args, e) : Mentions(func.kids[1], name)
        THEN result.kind = missing
        ELSE result.kind = "Ok"

\* C18: a call whose arguments are not as many as the parameters binds the
\* first min(#params, #args) parameters in declaration order; with too few
\* arguments it yields an error result when the body reads a parameter left
\* unbound, and completes when the body reads none
C18_MismatchIsErrorInBody ==
    MismatchedCall =>
        /\ BindsZipped(search_frame(env, input.s)[1], input.kids, env)
        /\ TooFewSurfacesAs(search_frame(env, input.s)[1], input.kids, env, "Err")

\* C18 with the outcome the interpreter gives when the body reads the unbound
\* parameter
C18_MismatchIsPanicInBody ==
    MismatchedCall =>
        /\ BindsZipped(search_frame(env, input.s)[1], input.kids, env)
        /\ TooFewSurfacesAs(search_frame(env, input.s)[1], input.kids, env, "Panic")

\* a call with too few arguments whose body reads only the bound parameter
C18_CompletedWithTooFew ==
    /\ op = "eval"
    /\ input = FuncCall("first", <<Var("x")>>)
    /\ search_frame(env, "x") = <<CInt(2)>>
    /\ result = Ok(CInt(2))

----------------------------------------------------------------------------
(* The frame table of an Environment *)

\* statements that call insert_variable, insert_test and insert_type, and a
\* module, whose environment is a copy of the one it is defined in
FrameSetup ==
    {Assignment("x", CInt(1)), Assignment("x", CInt(2)), FuncDef(Inc),
     TestDef(TestPass), Shape, ModTestDef("m", TestDef(TestFail)),
     Sequence(Assignment("y", CInt(2)), TestDef(TestFail))}

\* functions to insert a frame for: one has the name of the root scope
FrameScopes == {Function("scope", <<>>, <<>>), Inc, First, MainFunction}

NextFrames ==
    \/ ExecuteWithEnv(FrameSetup)
    \/ InsertFrame(FrameScopes)
    \/ RemoveFrame

SpecFrames == Init /\ [][NextFrames]_vars

\* the frame table of e has the frame of scope_key() and the root frame
HasFrames(e) ==
    /\ scope_key(e) \in DOMAIN e.stack
    /\ <<"__main__", 0>> \in DOMAIN e.stack

\* the environments of the test modules bound in a frame of e
ModuleEnvs(e) ==
    UNION {{e.stack[k].variables[v].envs[1] :
                v \in {w \in DOMAIN e.stack[k].variables :
                           e.stack[k].variables[w].tag = "TestEnvironment"}} :
           k \in DOMAIN e.stack}

\* C19: in every environment reached from Environment::new() by insert_frame,
\* remove_frame of an inserted frame, insert_variable, insert_test,
\* insert_type and the execution of statements, the frame table has an entry
\* for scope_key() and an entry for ("__main__", 0); so has the environment of
\* every test module bound in it
C19_FramesPresent ==
    /\ HasFrames(env)
    /\ \A m \in ModuleEnvs(env) : HasFrames(m)

\* a frame was removed from under two: the scope is back at the first
C19_Witness ==
    /\ op = "remove_frame"
    /\ result.kind = "Continue"
    /\ scope_key(env) = <<"scope", 1>>
    /\ DOMAIN env.stack = {<<"__main__", 0>>, <<"scope", 1>>}

----------------------------------------------------------------------------
(* Failures that are not the sentinel of a Propagate expression *)

\* what the statement run raises: the outcome of the match over the statement
\* in execute, before the final match on `result`
Raised == execute_statement(input, env)

\* the statement run raises a failure that carries no payload: a Propagate
\* expression raises its sentinel with the value it was given
RaisedPlainFailure ==
    /\ op = "run"
    /\ Raised.kind = "Err"
    /\ Raised.opt = <<>>

\* C20: a failure that no Propagate expression raised is returned by the
\* statement executor with the message it was raised with, whatever the text,
\* the messages of assertions included
C20_FailureForwardedUnchanged ==
    RaisedPlainFailure => result = Err(Raised.msg)

\* C20 for the failures whose message is not "Propagate"
C20_OtherFailuresForwardedUnchanged ==
    (RaisedPlainFailure /\ Raised.msg # "Propagate") => result = Err(Raised.msg)

\* the failure of an evaluation and the failure of an assertion, forwarded
C20_Forwarded ==
    /\ op = "run"
    /\ \/ /\ input = Assignment("z", FuncCall("missing", <<>>))
          /\ result = Err("Function missing not found")
       \/ /\ input = AssertFails("assertion failed")
          /\ result = Err("assertion failed")

----------------------------------------------------------------------------
(* The order of statements, and Return *)

\* t = 3 * t + k: the value of t tells which marks ran, and in which order
Mark(k) == Assignment("t", Add(Mul(Var("t"), CInt(3)), CInt(k)))

ReturnT == Return(Var("t"))

\* a statement on its own, in the branch of an if, in the body of a loop that
\* runs once at most, in a block, and in the body of a case
Nestings(stmt) ==
    {stmt,
     IfThenElse(CTrue, <<stmt>>),
     IfThenElse(CFalse, <<Mark(1), Block(<<stmt>>)>>),
     While(LT(Var("t"), CInt(3)), Sequence(Mark(2), stmt)),
     Block(<<stmt>>),
     Match(CInt(1), <<CInt(2), Mark(1), CInt(1), Block(<<stmt, Mark(2)>>)>>)}

OrderLeaves == {Mark(1), Mark(2), ReturnT}

\* t = 0 and then three statements in a Block or in Sequences, the second
\* of them nested
OrderPrograms ==
    {Sequence(Assignment("t", CInt(0)), Block(<<a, b, c>>)) :
         a \in OrderLeaves, b \in UNION {Nestings(l) : l \in OrderLeaves},
         c \in OrderLeaves}
    \cup {Sequence(Assignment("t", CInt(0)), Sequence(a, Sequence(b, c))) :
              a \in OrderLeaves, b \in UNION {Nestings(l) : l \in OrderLeaves},
              c \in OrderLeaves}
    \cup {Sequence(Assignment("t", CInt(0)), Sequence(Sequence(a, b), c)) :
              a \in OrderLeaves, b \in UNION {Nestings(l) : l \in OrderLeaves},
              c \in OrderLeaves}
    \cup {Sequence(Assignment("t", CInt(0)),
                   While(LT(Var("t"), CInt(9)), Block(<<a, b>>))) :
              a \in {Mark(1), Mark(2)}, b \in OrderLeaves}

\* loops whose condition has no boolean value, at the first test and after
\* an iteration
BadLoops ==
    {While(CInt(1), Mark(1)),
     While(CString("yes"), Mark(1)),
     While(CJust(CTrue), ReturnT),
     Sequence(Assignment("t", CTrue),
              While(Var("t"), Assignment("t", CInt(0)))),
     Sequence(Assignment("t", CTrue),
              While(Var("t"), Block(<<Assignment("t", CNothing)>>))),
     Block(<<Assignment("t", CInt(0)),
             While(LT(Var("t"), CInt(3)), Mark(2)),
             While(Add(Var("t"), CInt(1)), Mark(1))>>)}

ControlPrograms == OrderPrograms \cup BadLoops

\* Environment::new(), and the program to run
InitControl ==
    /\ env = NewEnvironment
    /\ result = Res("None")
    /\ op = "new"
    /\ input \in ControlPrograms
    /\ steps = 0

\* run(input, &env), once
RunInput ==
    /\ op = "new"
    /\ result' = run(input, env)
    /\ op' = "run"
    /\ UNCHANGED <<env, input, steps>>

NextControl == RunInput

SpecControl == InitControl /\ [][NextControl]_vars

\* the course of a statement over t, <<"Continue", t>> or <<"Return", t>>:
\* statements run in order, each from the value of t the one before left;
\* after a Return nothing runs
RECURSIVE Course(_, _), CourseOfAll(_, _), CourseOfWhile(_, _)
Course(stmt, t) ==
    CASE stmt.tag = "Assignment" ->
             IF stmt.kids[1].tag = "CInt" THEN <<"Continue", stmt.kids[1].n>>
             ELSE <<"Continue", 3 * t + stmt.kids[1].kids[2].n>>
      [] stmt.tag = "Return" -> <<"Return", t>>
      [] stmt.tag \in {"Block", "Sequence"} -> CourseOfAll(stmt.kids, t)
      [] stmt.tag = "IfThenElse" ->
             IF stmt.kids[1] = CTrue THEN Course(stmt.kids[2], t)
             ELSE IF Len(stmt.kids) = 3 THEN Course(stmt.kids[3], t)
             ELSE <<"Continue", t>>
      [] stmt.tag = "While" -> CourseOfWhile(stmt, t)
      [] stmt.tag = "Match" ->
             IF stmt.kids[2] = stmt.kids[1] THEN Course(stmt.kids[3], t)
             ELSE Course(stmt.kids[5], t)

CourseOfAll(stmts, t) ==
    IF stmts = <<>> THEN <<"Continue", t>>
    ELSE IF Course(stmts[1], t)[1] = "Return" THEN Course(stmts[1], t)
    ELSE CourseOfAll(Tail(stmts), Course(stmts[1], t)[2])

\* the condition of the loops is t < bound
CourseOfWhile(stmt, t) ==
    IF t >= stmt.kids[1].kids[2].n THEN <<"Continue", t>>
    ELSE IF Course(stmt.kids[2], t)[1] = "Return" THEN Course(stmt.kids[2], t)
    ELSE CourseOfWhile(stmt, Course(stmt.kids[2], t)[2])

\* C21: the statements of a Block and of a Sequence run in order, each from
\* the environment the one before produced, and once a nested statement, in
\* a Block, a Sequence, the branch of an IfThenElse, the body of a While or
\* of a Match, yields Return(v), no later statement runs and the outcome of
\* the enclosing statement is Return(v)
C21_InOrderUntilReturn ==
    (op = "run" /\ input \in OrderPrograms) =>
        IF Course(input, 0)[1] = "Return"
        THEN result = ReturnValue(CInt(Course(input, 0)[2]))
        ELSE result = Continue(insert_variable(env, "t", CInt(Course(input, 0)[2])))

\* a Return in a block inside the body of a case has ended the program after
\* the first mark and the mark of the case, before the marks that follow
C21_Witness ==
    /\ op = "run"
    /\ input = Sequence(Assignment("t", CInt(0)),
                        Block(<<Mark(2),
                                Match(CInt(1), <<CInt(2), Mark(1), CInt(1),
                                                 Block(<<ReturnT, Mark(2)>>)>>),
                                Mark(1)>>))
    /\ result = ReturnValue(CInt(2))

\* C22: a While whose condition evaluates to a value that is not a boolean,
\* at the first test or after an iteration, ends in a failure: run returns an
\* error message for it and the interpreter is not aborted
C22_BadConditionFails ==
    (op = "run" /\ input \in BadLoops) => result.kind = "Err"

\* C22 with the outcome the interpreter gives: the loop aborts it
C22_BadConditionAborts ==
    (op = "run" /\ input \in BadLoops) => result.kind = "Panic"

----------------------------------------------------------------------------
(* The frame in which a call finds its function *)

NotFound(name) == Err("Function " \o name \o " not found")

CallRan == op = "eval" /\ input.tag = "FuncCall"

\* C23: a call finds its function on the frame chain: it fails with
\* "Function <name> not found" when, and only when, no frame from the active
\* one to the root binds the name to a Function
C23_CallResolvesOnChain ==
    CallRan =>
        (result = NotFound(input.s)
             <=> input.s \notin FunctionsOnChain(env, scope_key(env)))

\* C23 with the frame the interpreter searches: the active frame alone
C23_CallResolvesInActiveFrame ==
    CallRan =>
        (result = NotFound(input.s)
             <=> (\/ search_frame(env, input.s) = <<>>
                  \/ ~IsFunc(search_frame(env, input.s)[1])))

----------------------------------------------------------------------------
(* Constructor patterns with arguments *)

\* the arguments of the pattern have values in e
PatternEvaluates(pattern, e) ==
    \A i \in 1..Len(pattern.kids) : eval(pattern.kids[i], e).kind = "Ok"

\* the value matches the pattern, the arguments of a constructor pattern
\* being evaluated in e and matched against the fields of the value
RECURSIVE MatchesEvaluated(_, _, _)
MatchesEvaluated(value, pattern, e) ==
    IF value.tag = "ADTConstructor" /\ pattern.tag = "ADTConstructor"
    THEN /\ value.s = pattern.s
         /\ value.s2 = pattern.s2
         /\ \A i \in 1..Len(pattern.kids) :
                i <= Len(value.kids) =>
                    /\ eval(pattern.kids[i], e).kind = "Ok"
                    /\ MatchesEvaluated(value.kids[i],
                                        eval(pattern.kids[i], e).val[1], e)
    ELSE is_constant(pattern) /\ ExpEq(value, pattern)

\* a Match of one case has been run, a constructor value against a pattern
\* of the same ADT and constructor whose arguments have values
ConstructorMatchRan ==
    /\ MatchRan
    /\ Len(input.kids) = 3
    /\ eval(input.kids[1], env).val[1].tag = "ADTConstructor"
    /\ input.kids[2].tag = "ADTConstructor"
    /\ input.kids[2].s = eval(input.kids[1], env).val[1].s
    /\ input.kids[2].s2 = eval(input.kids[1], env).val[1].s2
    /\ PatternEvaluates(input.kids[2], env)

\* the case runs exactly when the value matches the evaluated pattern
RunsIffMatches ==
    result = IF MatchesEvaluated(eval(input.kids[1], env).val[1], input.kids[2], env)
             THEN BodyOutcome(input.kids[3], env)
             ELSE Err("No matching pattern found")

\* C24: a constructor value matches a constructor pattern of the same ADT and
\* constructor iff each argument of the pattern, evaluated in the current
\* environment, matches the field of the value at its position: an argument
\* that is an expression or a variable matches the field equal to its value
C24_PatternArgumentsEvaluated == ConstructorMatchRan => RunsIffMatches

\* C24 for the patterns whose arguments are constants
C24_ConstantPatternArguments ==
    (/\ ConstructorMatchRan
     /\ \A i \in 1..Len(input.kids[2].kids) : is_constant(input.kids[2].kids[i]))
    => RunsIffMatches

\* C24 for the patterns that have an argument that is not a constant: the
\* interpreter rejects the pattern
C24_OtherPatternArgumentsRejected ==
    (/\ ConstructorMatchRan
     /\ \E i \in 1..Len(input.kids[2].kids) : ~is_constant(input.kids[2].kids[i]))
    => result = Err("Pattern not supported")

----------------------------------------------------------------------------
(* The recursion depth at which statements are executed *)

\* the environments that executing in e starts from besides e itself: the
\* environment of a call of each function of the active frame, the
\* environment the body of a test module starts in, and the environments of
\* the test modules bound in e
StartedFrom(e) ==
    {Callee(e.stack[scope_key(e)].variables[name], <<>>, e) :
         name \in {v \in DOMAIN e.stack[scope_key(e)].variables :
                      IsFunc(e.stack[scope_key(e)].variables[v])}}
    \cup {mod_test_env(e)} \cup ModuleEnvs(e)

\* C25: in an execution that run starts on an environment of depth zero,
\* every environment statements are executed in has depth zero; the branch of
\* propagate_error that gives Return(Err(carried)) is not reached, and a
\* Propagate that fails inside a called function ends the program in a
\* failure and hands no Err to the caller
C25_DepthZeroPropagateTerminates ==
    (op = "run" /\ env.recursion = 0) =>
        /\ \A e \in StartedFrom(env) : e.recursion = 0
        /\ result.kind = "Continue" =>
               \A e \in StartedFrom(result.env[1]) : e.recursion = 0
        /\ result.kind = "Return" => result.val[1].tag # "CErr"
        /\ \A form \in {"CallBodyReturn", "CallBodyBlock"}, e \in PropagateOperands :
               (/\ input = PropagateStmt(form, e)
                /\ AppliesPropagate(form, env)
                /\ eval(e, env).kind = "Ok"
                /\ eval(e, env).val[1].tag \in {"CErr", "CNothing"})
               => result.kind = "Err"

\* a Propagate has failed in a block of the body of a called function, and
\* the program has ended
C25_Witness ==
    /\ op = "run"
    /\ env.recursion = 0
    /\ input = PropagateStmt("CallBodyBlock", CErr(CInt(1)))
    /\ result = Err("Program terminated with errors: 1")

----------------------------------------------------------------------------
(* What evaluation and failed execution do to the caller's environment *)

Inner == Function("inner", <<>>, <<Return(CInt(0))>>)

\* busy assigns a name the caller has and one it has not, defines a function
\* and declares a type before it returns
Busy ==
    Function("busy", <<"a">>,
        <<Block(<<Assignment("x", CInt(9)), Assignment("z", Var("a")),
                  FuncDef(Inner), Shape,
                  Return(Add(Var("z"), Var("x")))>>)>>)

\* fails does the same and then fails
Fails ==
    Function("fails", <<>>,
        <<Block(<<Assignment("x", CInt(9)), FuncDef(Inner), Shape,
                  Return(Add(CTrue, CInt(1)))>>)>>)

\* make declares the type of the value it returns in its body
Make ==
    Function("make", <<>>, <<Block(<<Shape, Return(Circle(<<CReal(5, 1)>>))>>)>>)

\* draw constructs an instance of an ADT that its body does not declare
Draw == Function("draw", <<"r">>, <<Return(Circle(<<Var("r")>>))>>)

\* a test that does the same
TestShape ==
    Function("t_shape", <<>>, <<Assignment("c", Circle(<<CReal(5, 1)>>))>>)

\* a test that declares the ADT first
TestOwnShape ==
    Function("t_own", <<>>,
             <<Block(<<Shape, Assignment("c", Circle(<<CReal(5, 1)>>))>>)>>)

EffectSetup ==
    {Block(<<Assignment("x", CInt(1)), FuncDef(Busy), FuncDef(Fails)>>),
     FuncDef(Busy),
     FuncDef(Make),
     FuncDef(Draw),
     Block(<<Shape, FuncDef(Make), FuncDef(Draw),
             Assignment("s", Circle(<<CReal(5, 1)>>)),
             ModTestDef("m", Sequence(TestDef(TestShape), TestDef(TestOwnShape)))>>),
     Assignment("x", CInt(2)),
     Assignment("y", FuncCall("busy", <<CInt(2)>>)),
     Assignment("y", FuncCall("fails", <<>>)),
     Sequence(Assignment("y", FuncCall("busy", <<CInt(3)>>)),
              Assignment("v", CInt(1))),
     Sequence(Assignment("x", CInt(5)), Assignment("w", Add(CTrue, CInt(1)))),
     Sequence(Assignment("x", CInt(5)), Assignment("w", FuncCall("fails", <<>>))),
     Block(<<Assignment("x", CInt(5)), FuncDef(Inner), Shape,
             Assignment("w", FuncCall("nope", <<>>))>>),
     Sequence(Assignment("x", CInt(6)), Return(Var("x")))}

EffectExpressions ==
    {FuncCall("busy", <<CInt(2)>>),
     FuncCall("busy", <<Var("x")>>),
     FuncCall("fails", <<>>),
     Add(FuncCall("busy", <<CInt(1)>>), Var("x")),
     Var("x"), Var("s"),
     FuncCall("make", <<>>),
     FuncCall("draw", <<CReal(5, 1)>>),
     COk(FuncCall("make", <<>>)),
     CJust(Var("x")),
     CErr(CString("boom")),
     Circle(<<CReal(1, 2)>>)}

NextEffects ==
    \/ ExecuteWithEnv(EffectSetup)
    \/ Eval(EffectExpressions)
    \/ Run(EffectSetup)
    \/ ExecuteTests({<<<<"m", <<>>>>>>, <<<<"m", <<"t_shape">>>>>>},
                    {<<"t_shape", "t_own">>, <<"t_own", "t_shape">>})

SpecEffects == Init /\ [][NextEffects]_vars

\* the names a statement binds in the environment it is executed in: those
\* of its own assignments and function definitions, not those of the
\* functions it calls
RECURSIVE Binds(_)
Binds(stmt) ==
    CASE stmt.tag \in {"Assignment"} -> {stmt.s}
      [] stmt.tag = "FuncDef" -> {stmt.kids[1].s}
      [] stmt.tag = "ModTestDef" -> {stmt.s}
      [] stmt.tag \in {"Sequence", "Block"} ->
            UNION {Binds(stmt.kids[i]) : i \in DOMAIN stmt.kids}
      [] OTHER -> {}

\* the types a statement declares itself
RECURSIVE Declares(_)
Declares(stmt) ==
    CASE stmt.tag = "ADTDeclaration" -> {stmt.s}
      [] stmt.tag \in {"Sequence", "Block"} ->
            UNION {Declares(stmt.kids[i]) : i \in DOMAIN stmt.kids}
      [] OTHER -> {}

\* after differs from before in nothing but the variables in names and the
\* types in types
SameBut(before, after, names, types) ==
    LET vs == before.stack[scope_key(before)].variables
        ws == after.stack[scope_key(after)].variables
    IN /\ after.scope = before.scope
       /\ after.recursion = before.recursion
       /\ DOMAIN after.stack = DOMAIN before.stack
       /\ \A k \in DOMAIN before.stack \ {scope_key(before)} :
              after.stack[k] = before.stack[k]
       /\ DOMAIN ws \ names = DOMAIN vs \ names
       /\ \A n \in DOMAIN vs \ names : ws[n] = vs[n]
       /\ DOMAIN after.type_env \ types = DOMAIN before.type_env \ types
       /\ \A t \in DOMAIN before.type_env \ types :
              after.type_env[t] = before.type_env[t]

CallerUnchanged ==
    /\ op' \in {"eval", "run", "execute_tests"} => env' = env
    /\ (op' = "execute_with_env" /\ result'.kind # "Continue") =>
           env' = env /\ result'.env = <<>>
    /\ (op' = "execute_with_env" /\ result'.kind = "Continue") =>
           SameBut(env, env', Binds(input'), Declares(input'))

\* C26: eval, run and execute_tests leave the environment as it was, whatever the bodies of
\* the functions called assign, define or declare; a statement that is
\* executed into the environment and does not continue leaves it as it was
\* and gives no environment; one that continues changes only the names it
\* binds and the types it declares itself, not those of the functions it
\* calls
C26_CallerEnvironmentUnchanged == [][CallerUnchanged]_vars

\* busy has been called in an expression, and in the caller x is still 1 and
\* z, inner and Shape are unknown
C26_Witness ==
    /\ op = "eval"
    /\ input = FuncCall("busy", <<CInt(2)>>)
    /\ result = Ok(CInt(11))
    /\ search_frame(env, "x") = <<CInt(1)>>
    /\ search_frame(env, "z") = <<>>
    /\ search_frame(env, "inner") = <<>>
    /\ "Shape" \notin DOMAIN env.type_env

----------------------------------------------------------------------------
(* Evaluating a value again *)

\* the ADTs whose instances occur in v
RECURSIVE TypesOf(_)
TypesOf(v) ==
    (IF v.tag = "ADTConstructor" THEN {v.s} ELSE {})
    \cup UNION {TypesOf(v.kids[i]) : i \in DOMAIN v.kids}

\* eval has given the expression value v
Evaluated(v) ==
    /\ op = "eval"
    /\ result.kind = "Ok"
    /\ v = result.val[1]
    /\ IsExp(v)

\* C27: when eval(e, env) gives the wrapped expression v, eval(v, env) gives
\* the same v
C27_EvalIdempotentOnValues ==
    \A v \in (IF result.val = <<>> THEN {} ELSE {result.val[1]}) :
        Evaluated(v) => eval(v, env) = Ok(v)

\* the same for the values whose ADTs are all declared in env
C27_EvalIdempotentWhereDeclared ==
    \A v \in (IF result.val = <<>> THEN {} ELSE {result.val[1]}) :
        (Evaluated(v) /\ TypesOf(v) \subseteq DOMAIN env.type_env) =>
            eval(v, env) = Ok(v)

\* an instance of an ADT that env does not declare is not evaluated again
C27_UndeclaredIsNotFound ==
    \A v \in (IF result.val = <<>> THEN {} ELSE {result.val[1]}) :
        (Evaluated(v) /\ ~(TypesOf(v) \subseteq DOMAIN env.type_env)) =>
            eval(v, env) = Err("Error: ADT Shape not found")

\* an instance has been evaluated again where its ADT is declared
C27_Reevaluated ==
    /\ Evaluated(Circle(<<CReal(5, 1)>>))
    /\ input = FuncCall("make", <<>>)
    /\ "Shape" \in DOMAIN env.type_env

----------------------------------------------------------------------------
(* The order in which the tests of a module are run *)

\* execute_tests has run every test of modules of env
AllOfModules ==
    /\ op = "execute_tests"
    /\ \A i \in 1..Len(input.kids) :
           input.kids[i][2] = <<>> /\ IsModule(env, input.kids[i][1])

\* C28: what execute_tests gives for (module, None) selections is the same
\* in whichever order the test table of the module is iterated
C28_IterationOrderIrrelevant ==
    AllOfModules =>
        \A order \in TestOrders : execute_tests(input.kids, env, order) = result

\* the same where no test of a selected module calls another of its tests
C28_IterationOrderIrrelevantWithoutCalls ==
    (AllOfModules /\ ~TestCallsTest) =>
        \A order \in TestOrders : execute_tests(input.kids, env, order) = result

\* t_calls has passed because t_ret was registered before it; in the other
\* order it fails
C28_PassedAfterCallee ==
    /\ AllOfModules
    /\ result.kind = "Ok"
    /\ <<"m::t_calls", "Passou", <<>>>> \in result.val[1]
    /\ <<"m::t_calls", "Falhou", <<"Erro: Function t_ret not found">>>>
           \in execute_tests(input.kids, env,
                             <<"t_calls", "t_ret", "t_var", "t_fail", "t_pass">>).val[1]

----------------------------------------------------------------------------
(* insert_frame and remove_frame, one after the other *)

\* C29: for every environment reached and every function func, after
\* insert_frame(func) the scope is func, one deeper, on an empty frame whose
\* parent is the scope the frame was inserted from; remove_frame then gives
\* the environment as it was before insert_frame: scope, depth and frame
\* table
C29_InsertRemoveRoundTrip ==
    \A func \in FrameScopes :
        /\ insert_frame(env, func).scope = func
        /\ insert_frame(env, func).recursion = env.recursion + 1
        /\ scope_key(insert_frame(env, func)) = <<func.s, env.recursion + 1>>
        /\ DOMAIN insert_frame(env, func).stack =
               DOMAIN env.stack \cup {<<func.s, env.recursion + 1>>}
        /\ insert_frame(env, func).stack[<<func.s, env.recursion + 1>>] =
               [NewFrame(<<>>, <<>>) EXCEPT !.parent_function = <<env.scope>>,
                                           !.parent_key = <<scope_key(env)>>]
        /\ insert_frame(env, func).stack[<<func.s, env.recursion + 1>>].variables
               = EmptyMap
        /\ remove_frame(insert_frame(env, func)) = Continue(env)

\* a frame was inserted over the root frame holding x, and removed again
C29_Witness ==
    /\ op = "remove_frame"
    /\ result = Continue(env)
    /\ env.recursion = 0
    /\ env.scope = MainFunction
    /\ DOMAIN env.stack = {<<"__main__", 0>>}
    /\ search_frame(env, "x") = <<CInt(1)>>

----------------------------------------------------------------------------
(* The type table of a call *)

\* the functions of the active frame of e
Functions(e) ==
    {e.stack[scope_key(e)].variables[name] :
         name \in {v \in DOMAIN e.stack[scope_key(e)].variables :
                      IsFunc(e.stack[scope_key(e)].variables[v])}}

\* the environment of a call has no types, and no variables but functions
\* and the parameters bound
CalleeHasNoTypes(e) ==
    \A func \in Functions(e) :
        LET callee == Callee(func, <<CReal(5, 1)>>, e)
            vs == callee.stack[scope_key(callee)].variables
        IN /\ callee.type_env = EmptyMap
           /\ DOMAIN callee.stack = {scope_key(callee)}
           /\ \A name \in DOMAIN vs :
                  IsFunc(vs[name]) \/ name \in {func.names[i] : i \in DOMAIN func.names}

\* C30: the body of a call is executed without the caller's ADT
\* declarations; constructing an instance of an ADT that only the caller
\* declares fails in a called function and in a test run by execute_tests
\* with "Error: ADT <name> not found", and succeeds where the body declares
\* the ADT itself
C30_CalleeHasNoTypes ==
    /\ CalleeHasNoTypes(env)
    /\ (/\ op = "eval"
        /\ input = FuncCall("draw", <<CReal(5, 1)>>)
        /\ search_frame(env, "draw") = <<Draw>>)
       => result = Err("Error: ADT Shape not found")
    /\ (/\ op = "eval"
        /\ input = FuncCall("make", <<>>)
        /\ search_frame(env, "make") = <<Make>>)
       => result = Ok(Circle(<<CReal(5, 1)>>))
    /\ (op = "execute_tests" /\ IsModule(env, "m")) =>
           /\ result.kind = "Ok"
           /\ <<"m::t_shape", "Falhou", <<"Erro: Error: ADT Shape not found">>>>
                  \in result.val[1]
           /\ input.kids[1][2] = <<>> =>
                  <<"m::t_own", "Passou", <<>>>> \in result.val[1]

\* draw was called where the caller declares Shape, and failed
C30_Witness ==
    /\ op = "eval"
    /\ input = FuncCall("draw", <<CReal(5, 1)>>)
    /\ search_frame(env, "draw") = <<Draw>>
    /\ "Shape" \in DOMAIN env.type_env
    /\ search_frame(env, "s") = <<Circle(<<CReal(5, 1)>>)>>
    /\ result = Err("Error: ADT Shape not found")

====
